---- MODULE Spec2Model ----
(***************************************************************************)
(* A model of readly's renderer (src/renderer/src/App.tsx): the folder /   *)
(* note tree kept in the App component's state, and the RSVP reader's      *)
(* playback effect.                                                        *)
(*                                                                         *)
(* Every React event handler is one action.  A handler reads the state of  *)
(* the render it was created in (its closure) and queues plain setState    *)
(* calls; React applies the queued values after the handler returns, the   *)
(* last value queued for a state variable winning.  The operators below    *)
(* therefore read the unprimed variables and the actions assign the        *)
(* primed ones.                                                            *)
(***************************************************************************)
EXTENDS Integers, Sequences, FiniteSets, TLC

\* ------------------------------------------------------------------ bounds
\* number of notes / folders ever created (crypto.randomUUID never repeats)
MaxNotes == 2
MaxFolders == 3
\* largest sibling order the model lets an operation assign
MaxOrder == 2
\* the fired advances a recorded session counts
MaxAdvances == 7
\* the tokens of the long text of the training sessions
MaxTokens == 151
\* the longest token of the focus character checks
MaxWordLength == 15
\* the longest note content of the token checks, in characters and tags
MaxTextLength == 4
\* saveData calls recorded
MaxSaves == 2

\* ------------------------------------------------------- JavaScript values
NULL == "null"
UNDEFINED == "undefined"
\* useState<string>('') : the initial active selection
EMPTY == ""
TRASH_FOLDER_ID == "__trash__"

\* crypto.randomUUID(): the k-th identity handed out, never handed out twice
NoteUuids == <<"n1", "n2", "n3", "n4", "n5", "n6">>
FolderUuids == <<"f1", "f2", "f3", "f4", "f5", "f6">>
NoteIds == {NoteUuids[k] : k \in 1..MaxNotes}
FolderIds == {FolderUuids[k] : k \in 1..MaxFolders}

\* the editor's HTML, as the sequence of its characters; a tag is one item
EmptyContent == <<>>
EmptyParagraph == <<"<p>", "</p>">>
ShortContent == <<"<p>", "T", "h", "e", " ", "e", "n", "d", ".", "</p>">>
Contents == {EmptyContent, ShortContent}
FolderNames == {"New Folder", "Untitled"}

VARIABLES
  notes,          \* useState<Note[]>     App.tsx:182
  folders,        \* useState<Folder[]>   App.tsx:183
  activeNoteId,   \* useState<string>     App.tsx:184
  nextNoteUuid,   \* how many note identities crypto.randomUUID has produced
  nextFolderUuid, \* how many folder identities it has produced
  readerOpen,     \* useState(false)      App.tsx:200
  isPlaying,      \* useState(false)      App.tsx:201
  wpm,            \* useState(300)        App.tsx:202
  words,          \* useState<string[]>   App.tsx:203
  currentIdx,     \* useState(0)          App.tsx:204   (0-based)
  timeouts,       \* the pending setTimeout callbacks of the playback effect
  effectCleanup,  \* whether the effect's last run returned its cleanup
  adaptWordLength,   \* App.tsx:211
  adaptPunctuation,  \* App.tsx:212
  adaptComplexity,   \* App.tsx:213
  trainingMode,      \* App.tsx:214
  startWpmRef,       \* useRef(wpm)      App.tsx:216
  advances,       \* history: advances fired since the last user input
  finishes,       \* history: times the effect stopped playback at the end since then
  isLoaded,       \* useState(false)      App.tsx:185
  loadAppData,    \* where the load effect's loadAppData is: App.tsx:230-266
  consoleErrors,  \* the messages console.error was called with
  isInitialMount, \* useRef(true)        App.tsx:269
  saveTimeouts,   \* the pending setTimeout callbacks of the save effect
  saveDataCalls   \* the arguments window.api.saveData was called with

treeVars == <<notes, folders, activeNoteId, nextNoteUuid, nextFolderUuid>>
readerVars == <<readerOpen, isPlaying, wpm, words, currentIdx, timeouts, effectCleanup,
                adaptWordLength, adaptPunctuation, adaptComplexity, trainingMode,
                startWpmRef>>
historyVars == <<advances, finishes>>
loadVars == <<isLoaded, loadAppData, consoleErrors>>
saveVars == <<isInitialMount, saveTimeouts, saveDataCalls>>
vars == <<notes, folders, activeNoteId, nextNoteUuid, nextFolderUuid,
          readerOpen, isPlaying, wpm, words, currentIdx, timeouts, effectCleanup,
          adaptWordLength, adaptPunctuation, adaptComplexity, trainingMode,
          startWpmRef, advances, finishes,
          isLoaded, loadAppData, consoleErrors,
          isInitialMount, saveTimeouts, saveDataCalls>>

\* ------------------------------------------------------------ Array helpers
Range(s) == {s[i] : i \in 1..Len(s)}
\* Array.prototype.map
Map(s, F(_)) == [i \in 1..Len(s) |-> F(s[i])]
\* Array.prototype.filter
Filter(s, T(_)) == SelectSeq(s, T)
\* Array.prototype.some
Some(s, T(_)) == \E i \in 1..Len(s) : T(s[i])
\* Math.max(...values) of a non-empty set of integers
Max(S) == CHOOSE m \in S : \A x \in S : x <= m

NoteById(id) == CHOOSE n \in Range(notes) : n.id = id
FolderById(id) == CHOOSE f \in Range(folders) : f.id = id
HasNote(id) == \E n \in Range(notes) : n.id = id
HasFolder(id) == \E f \in Range(folders) : f.id = id

\* ------------------------------------------------------------- Tree Store
\* a next order that counts the siblings instead of looking at their orders
getNextOrderByCount(parentId, type) ==
  IF type = "note"
  THEN Len(Filter(notes, LAMBDA n : n.folderId = parentId))
  ELSE Len(Filter(folders, LAMBDA f : f.parentId = parentId))

getNextOrder(parentId, type) ==
  IF type = "note"
  THEN LET notesAtLevel == Filter(notes, LAMBDA n : n.folderId = parentId)
       IN  IF Len(notesAtLevel) > 0
           THEN Max({notesAtLevel[i].order : i \in 1..Len(notesAtLevel)}) + 1
           ELSE 0
  ELSE LET foldersAtLevel == Filter(folders, LAMBDA f : f.parentId = parentId)
       IN  IF Len(foldersAtLevel) > 0
           THEN Max({foldersAtLevel[i].order : i \in 1..Len(foldersAtLevel)}) + 1
           ELSE 0

createNote(folderId) ==
  /\ nextNoteUuid < MaxNotes
  /\ getNextOrder(folderId, "note") <= MaxOrder
  /\ LET newNote == [id |-> NoteUuids[nextNoteUuid + 1],
                     title |-> "",
                     content |-> EmptyContent,
                     folderId |-> folderId,
                     previousFolderId |-> UNDEFINED,
                     order |-> getNextOrder(folderId, "note")]
     IN  /\ notes' = <<newNote>> \o notes
         /\ activeNoteId' = newNote.id
  /\ nextNoteUuid' = nextNoteUuid + 1
  /\ UNCHANGED <<folders, nextFolderUuid>>

\* an update that adds the note when no note has the id
updateNoteOrInsert(id, updates) ==
  /\ notes' = IF \E n \in Range(notes) : n.id = id
              THEN Map(notes, LAMBDA n : IF n.id = id
                                         THEN [n EXCEPT !.content = updates.content]
                                         ELSE n)
              ELSE <<[id |-> id,
                      title |-> "",
                      content |-> updates.content,
                      folderId |-> NULL,
                      previousFolderId |-> UNDEFINED,
                      order |-> 0]>> \o notes
  /\ UNCHANGED <<folders, activeNoteId, nextNoteUuid, nextFolderUuid>>

\* updates is the partial record { content } the editor passes
updateNote(id, updates) ==
  /\ notes' = Map(notes, LAMBDA n : IF n.id = id
                                    THEN [n EXCEPT !.content = updates.content]
                                    ELSE n)
  /\ UNCHANGED <<folders, activeNoteId, nextNoteUuid, nextFolderUuid>>

\* a delete that removes the note whatever folder it is in
alreadyInTrashAlways(note) == TRUE

\* deleteNote's test: the note is already in Trash
alreadyInTrash(note) == note.folderId = TRASH_FOLDER_ID

\* a soft delete that does not store the original location
movedToTrashForgetful(n) == [n EXCEPT !.folderId = TRASH_FOLDER_ID]

\* deleteNote's soft delete of note n, storing its original location
movedToTrash(n) ==
  [n EXCEPT !.previousFolderId = n.folderId, !.folderId = TRASH_FOLDER_ID]

\* a choice of the next selection that forgets to leave Trash out
remainingWithTrash(id) == Filter(notes, LAMBDA n : n.id # id)

\* deleteNote's candidates for the selection after a soft delete
remaining(id) == Filter(notes, LAMBDA n : n.id # id /\ n.folderId # TRASH_FOLDER_ID)

\* a choice of the next selection that does not prefer Trash
afterPermanentDeleteFirst(filtered) ==
  IF Len(filtered) > 0 THEN filtered[1].id ELSE NULL

\* deleteNote's selection after a permanent delete left the notes filtered
afterPermanentDelete(filtered) ==
  LET trashNotes == Filter(filtered, LAMBDA n : n.folderId = TRASH_FOLDER_ID)
  IN  IF Len(trashNotes) > 0 THEN trashNotes[1].id
      ELSE IF Len(filtered) > 0 THEN filtered[1].id
      ELSE NULL

deleteNote(id) ==
  /\ IF ~HasNote(id)
     THEN UNCHANGED <<notes, activeNoteId>>
     ELSE IF alreadyInTrash(NoteById(id))
     THEN LET filtered == Filter(notes, LAMBDA n : n.id # id)
          IN  /\ notes' = filtered
              /\ activeNoteId' =
                   IF activeNoteId = id
                   THEN afterPermanentDelete(filtered)
                   ELSE activeNoteId
     ELSE /\ notes' = Map(notes, LAMBDA n : IF n.id = id THEN movedToTrash(n) ELSE n)
          /\ activeNoteId' =
               IF activeNoteId = id
               THEN IF Len(remaining(id)) > 0 THEN remaining(id)[1].id ELSE NULL
               ELSE activeNoteId
  /\ UNCHANGED <<folders, nextNoteUuid, nextFolderUuid>>

createFolder(parentId) ==
  /\ nextFolderUuid < MaxFolders
  /\ getNextOrder(parentId, "folder") <= MaxOrder
  /\ LET newFolder == [id |-> FolderUuids[nextFolderUuid + 1],
                       name |-> "New Folder",
                       parentId |-> parentId,
                       collapsed |-> FALSE,
                       order |-> getNextOrder(parentId, "folder")]
     IN  folders' = Append(folders, newFolder)
  /\ nextFolderUuid' = nextFolderUuid + 1
  /\ UNCHANGED <<notes, activeNoteId, nextNoteUuid>>

\* updates is the partial record { name } the rename input passes
updateFolder(id, updates) ==
  /\ folders' = Map(folders, LAMBDA f : IF f.id = id
                                        THEN [f EXCEPT !.name = updates.name]
                                        ELSE f)
  /\ UNCHANGED <<notes, activeNoteId, nextNoteUuid, nextFolderUuid>>

\* children left where they were, under the deleted folder
newParentIdSelf(id) == id

\* children sent to the root whatever the deleted folder's parent is
newParentIdRoot(id) == NULL

\* deleteFolder's newParentId: folder?.parentId ?? null
newParentId(id) == IF HasFolder(id) THEN FolderById(id).parentId ELSE NULL

deleteFolder(id) ==
  /\ folders' = Map(Filter(folders, LAMBDA f : f.id # id),
                    LAMBDA f : IF f.parentId = id
                               THEN [f EXCEPT !.parentId = newParentId(id)]
                               ELSE f)
  /\ notes' = Map(notes, LAMBDA n : IF n.folderId = id
                                    THEN [n EXCEPT !.folderId = newParentId(id)]
                                    ELSE n)
  /\ UNCHANGED <<activeNoteId, nextNoteUuid, nextFolderUuid>>

\* a toggle that only ever collapses
toggleFolderCollapseOneWay(id) ==
  /\ folders' = Map(folders, LAMBDA f : IF f.id = id
                                        THEN [f EXCEPT !.collapsed = TRUE]
                                        ELSE f)
  /\ UNCHANGED <<notes, activeNoteId, nextNoteUuid, nextFolderUuid>>

toggleFolderCollapse(id) ==
  /\ folders' = Map(folders, LAMBDA f : IF f.id = id
                                        THEN [f EXCEPT !.collapsed = ~f.collapsed]
                                        ELSE f)
  /\ UNCHANGED <<notes, activeNoteId, nextNoteUuid, nextFolderUuid>>

\* an emptyTrash that leaves the selection on a removed note
emptyTrashKeepsSelection ==
  /\ notes' = Filter(notes, LAMBDA n : n.folderId # TRASH_FOLDER_ID)
  /\ UNCHANGED <<activeNoteId, folders, nextNoteUuid, nextFolderUuid>>

emptyTrash ==
  LET filtered == Filter(notes, LAMBDA n : n.folderId # TRASH_FOLDER_ID)
  IN  /\ notes' = filtered
      /\ activeNoteId' =
           IF HasNote(activeNoteId) /\ NoteById(activeNoteId).folderId = TRASH_FOLDER_ID
           THEN IF Len(filtered) > 0 THEN filtered[1].id ELSE NULL
           ELSE activeNoteId
      /\ UNCHANGED <<folders, nextNoteUuid, nextFolderUuid>>

\* a restore that trusts the stored location
restoreTargetUnchecked(note) ==
  IF note.previousFolderId \in {UNDEFINED, NULL, EMPTY} THEN NULL ELSE note.previousFolderId

\* restoreNote's targetFolderId: the previous folder if it still exists, else root
restoreTarget(note) ==
  IF /\ note.previousFolderId \notin {UNDEFINED, NULL, EMPTY}
     /\ Some(folders, LAMBDA f : f.id = note.previousFolderId)
  THEN note.previousFolderId
  ELSE NULL

\* a restore that leaves the stored location in place
restoredKeepingPrevious(n, target) == [n EXCEPT !.folderId = target]

\* restoreNote's update of note n
restored(n, target) == [n EXCEPT !.folderId = target, !.previousFolderId = UNDEFINED]

restoreNote(id) ==
  /\ IF ~HasNote(id)
     THEN UNCHANGED notes
     ELSE notes' = Map(notes, LAMBDA n :
                        IF n.id = id THEN restored(n, restoreTarget(NoteById(id))) ELSE n)
  /\ UNCHANGED <<folders, activeNoteId, nextNoteUuid, nextFolderUuid>>

\* the ancestor walk of isDescendant, from the folder current upwards
RECURSIVE WalkUp(_, _, _)
WalkUp(potentialParentId, current, fuel) ==
  IF current.parentId = potentialParentId THEN TRUE
  ELSE IF fuel = 0 \/ ~HasFolder(current.parentId) THEN FALSE
  ELSE WalkUp(potentialParentId, FolderById(current.parentId), fuel - 1)

\* a walk that looks at the folder's own parent only
isDescendantOneLevel(potentialParentId, folderId) ==
  HasFolder(folderId) /\ FolderById(folderId).parentId = potentialParentId

\* a walk that also finds the folder among the ancestors of the dragged one
isDescendantEitherWay(potentialParentId, folderId) ==
  \/ HasFolder(folderId) /\ WalkUp(potentialParentId, FolderById(folderId), Len(folders))
  \/ HasFolder(potentialParentId)
       /\ WalkUp(folderId, FolderById(potentialParentId), Len(folders))

isDescendant(potentialParentId, folderId) ==
  IF ~HasFolder(folderId) THEN FALSE
  ELSE WalkUp(potentialParentId, FolderById(folderId), Len(folders))

\* ------------------------------------------------------------ drag and drop
\* draggedItem is set by handleDragStart and cleared by the drop handler or
\* by handleDragEnd; one gesture (drag start, drop, drag end) is one action
\* and draggedItem is its input.
DraggedItem(id, type) == [id |-> id, type |-> type]

\* the values a handler queues with setNotes / setFolders
Queued(setN, n, setF, f) == [setNotes |-> setN, notes |-> n, setFolders |-> setF, folders |-> f]
\* React applies the queue of one event in order: the last value queued wins
Commit(queue) ==
  LET lastNotes == {i \in 1..Len(queue) : queue[i].setNotes}
      lastFolders == {i \in 1..Len(queue) : queue[i].setFolders}
  IN  /\ notes' = IF lastNotes = {} THEN notes ELSE queue[Max(lastNotes)].notes
      /\ folders' = IF lastFolders = {} THEN folders ELSE queue[Max(lastFolders)].folders

\* a drop on a folder that moves the item and keeps the order it had
DropOnFolderQueueKeepsOrder(draggedItem, targetFolderId) ==
  IF draggedItem.type = "note"
  THEN Queued(TRUE,
              Map(notes, LAMBDA n :
                    IF n.id = draggedItem.id
                    THEN [n EXCEPT !.folderId = targetFolderId]
                    ELSE n),
              FALSE, folders)
  ELSE IF draggedItem.id = targetFolderId \/ isDescendant(draggedItem.id, targetFolderId)
  THEN Queued(FALSE, notes, FALSE, folders)
  ELSE Queued(FALSE, notes, TRUE,
              Map(folders, LAMBDA f :
                    IF f.id = draggedItem.id
                    THEN [f EXCEPT !.parentId = targetFolderId]
                    ELSE f))

DropOnFolderQueue(draggedItem, targetFolderId) ==
  IF draggedItem.type = "note"
  THEN Queued(TRUE,
              Map(notes, LAMBDA n :
                    IF n.id = draggedItem.id
                    THEN [n EXCEPT !.folderId = targetFolderId,
                                   !.order = getNextOrder(targetFolderId, "note")]
                    ELSE n),
              FALSE, folders)
  ELSE IF draggedItem.id = targetFolderId \/ isDescendant(draggedItem.id, targetFolderId)
  THEN Queued(FALSE, notes, FALSE, folders)
  ELSE Queued(FALSE, notes, TRUE,
              Map(folders, LAMBDA f :
                    IF f.id = draggedItem.id
                    THEN [f EXCEPT !.parentId = targetFolderId,
                                   !.order = getNextOrder(targetFolderId, "folder")]
                    ELSE f))

DropOnRootQueue(draggedItem) ==
  IF draggedItem.type = "note"
  THEN Queued(TRUE,
              Map(notes, LAMBDA n :
                    IF n.id = draggedItem.id
                    THEN [n EXCEPT !.folderId = NULL,
                                   !.order = getNextOrder(NULL, "note")]
                    ELSE n),
              FALSE, folders)
  ELSE Queued(FALSE, notes, TRUE,
              Map(folders, LAMBDA f :
                    IF f.id = draggedItem.id
                    THEN [f EXCEPT !.parentId = NULL,
                                   !.order = getNextOrder(NULL, "folder")]
                    ELSE f))

DropOnTrashQueue(draggedItem) ==
  IF draggedItem.type = "note"
  THEN Queued(TRUE,
              Map(notes, LAMBDA n :
                    IF n.id = draggedItem.id
                    THEN [n EXCEPT !.folderId = TRASH_FOLDER_ID]
                    ELSE n),
              FALSE, folders)
  ELSE Queued(FALSE, notes, FALSE, folders)

\* the handlers a drop on the Trash header runs: its own onDrop, which does
\* not stop propagation, then the onDrop of the enclosing root drop area
TrashDropHandlers(draggedItem) ==
  <<DropOnTrashQueue(draggedItem), DropOnRootQueue(draggedItem)>>

\* a folder row: stopPropagation, so the root area's handler does not run
handleDropOnFolder(draggedItem, targetFolderId) ==
  /\ draggedItem.type = "note" => getNextOrder(targetFolderId, "note") <= MaxOrder
  /\ draggedItem.type = "folder" => getNextOrder(targetFolderId, "folder") <= MaxOrder
  /\ Commit(<<DropOnFolderQueue(draggedItem, targetFolderId)>>)
  /\ UNCHANGED <<activeNoteId, nextNoteUuid, nextFolderUuid>>

handleDropOnRoot(draggedItem) ==
  /\ getNextOrder(NULL, draggedItem.type) <= MaxOrder
  /\ Commit(<<DropOnRootQueue(draggedItem)>>)
  /\ UNCHANGED <<activeNoteId, nextNoteUuid, nextFolderUuid>>

handleDropOnTrash(draggedItem) ==
  /\ getNextOrder(NULL, draggedItem.type) <= MaxOrder
  /\ Commit(TrashDropHandlers(draggedItem))
  /\ UNCHANGED <<activeNoteId, nextNoteUuid, nextFolderUuid>>

\* onClick of a note row
selectNote(id) ==
  /\ activeNoteId' = id
  /\ UNCHANGED <<notes, folders, nextNoteUuid, nextFolderUuid>>


\* ------------------------------------------------------------------- text
\* A string is the sequence of its characters, each a one-character string.
Whitespace == {" ", "\n", "\t"}
UpperLetters == <<"A", "B", "C", "D", "E", "F", "G", "H", "I", "J", "K", "L", "M",
                  "N", "O", "P", "Q", "R", "S", "T", "U", "V", "W", "X", "Y", "Z">>
LowerLetters == <<"a", "b", "c", "d", "e", "f", "g", "h", "i", "j", "k", "l", "m",
                  "n", "o", "p", "q", "r", "s", "t", "u", "v", "w", "x", "y", "z">>
Digits == {"0", "1", "2", "3", "4", "5", "6", "7", "8", "9"}
\* the character U+2014
EmDash == "&mdash;"
\* the regular expression class \w
WordChars == Range(UpperLetters) \cup Range(LowerLetters) \cup Digits \cup {"_"}

\* String.prototype.toLowerCase, one character
toLowerCase(c) ==
  IF \E i \in 1..26 : UpperLetters[i] = c
  THEN LowerLetters[CHOOSE i \in 1..26 : UpperLetters[i] = c]
  ELSE c

\* the JavaScript string made of the characters of s
RECURSIVE Join(_)
Join(s) == IF s = <<>> THEN "" ELSE Head(s) \o Join(Tail(s))

\* String.prototype.trim
RECURSIVE TrimStart(_)
TrimStart(s) == IF s # <<>> /\ Head(s) \in Whitespace THEN TrimStart(Tail(s)) ELSE s
RECURSIVE TrimEnd(_)
TrimEnd(s) ==
  IF s # <<>> /\ s[Len(s)] \in Whitespace THEN TrimEnd(SubSeq(s, 1, Len(s) - 1)) ELSE s
\* a trim of the start only
trimStartOnly(s) == TrimStart(s)

trim(s) == TrimEnd(TrimStart(s))

\* String.prototype.split(/\s+/): cut at every run of whitespace
RECURSIVE SplitFrom(_, _, _)
SplitFrom(s, current, inRun) ==
  IF s = <<>> THEN <<current>>
  ELSE IF Head(s) \in Whitespace
  THEN IF inRun THEN SplitFrom(Tail(s), current, TRUE)
       ELSE <<current>> \o SplitFrom(Tail(s), <<>>, TRUE)
  ELSE SplitFrom(Tail(s), Append(current, Head(s)), FALSE)
split(s) == SplitFrom(s, <<>>, FALSE)

\* stripHtml: the text content of the parsed document, every block element
\* given a trailing newline.  A tag is one item of the content sequence.
BlockEnd == {"</p>", "</h1>", "</li>", "</div>", "<br>"}
Tags == BlockEnd \cup {"<p>", "<h1>", "<li>", "<div>", "<strong>", "</strong>"}
RECURSIVE stripHtml(_)
stripHtml(html) ==
  IF html = <<>> THEN <<>>
  ELSE IF Head(html) \in BlockEnd THEN <<"\n">> \o stripHtml(Tail(html))
  ELSE IF Head(html) \in Tags THEN stripHtml(Tail(html))
  ELSE <<Head(html)>> \o stripHtml(Tail(html))

\* ----------------------------------------------------------- Pacing Engine
commonWords == {
  "the", "a", "an", "is", "are", "was", "were", "be", "been", "being",
  "have", "has", "had", "do", "does", "did", "will", "would", "could",
  "should", "may", "might", "must", "shall", "can", "need", "dare",
  "to", "of", "in", "for", "on", "with", "at", "by", "from", "as",
  "into", "through", "during", "before", "after", "above", "below",
  "between", "under", "again", "further", "then", "once", "here",
  "there", "when", "where", "why", "how", "all", "each", "every",
  "both", "few", "more", "most", "other", "some", "such", "no", "nor",
  "not", "only", "own", "same", "so", "than", "too", "very", "just",
  "and", "but", "if", "or", "because", "until", "while", "although",
  "i", "you", "he", "she", "it", "we", "they", "what", "which", "who",
  "this", "that", "these", "those", "am", "its", "my", "your", "his", "her"}

AdaptiveOptions(baseWpm, wordLength, punctuation, complexity) ==
  [baseWpm |-> baseWpm, adaptWordLength |-> wordLength,
   adaptPunctuation |-> punctuation, adaptComplexity |-> complexity]

\* a pacing engine whose complexity multiplier reaches the base only
calculateWordDelayBaseOnly(word, options) ==
  LET cleanWord == SelectSeq(word, LAMBDA c : c \in WordChars)
      lengthPenalty ==
        IF options.adaptWordLength
        THEN (IF Len(cleanWord) - 5 > 0 THEN Len(cleanWord) - 5 ELSE 0) * 12
        ELSE 0
      last == IF word = <<>> THEN "" ELSE word[Len(word)]
      punctuationPause ==
        IF ~options.adaptPunctuation THEN 0
        ELSE IF last \in {".", "!", "?"} THEN 150
        ELSE IF last \in {",", ";", ":"} THEN 80
        ELSE IF last \in {"-", EmDash} THEN 50
        ELSE 0
      lowered == Join([i \in 1..Len(cleanWord) |-> toLowerCase(cleanWord[i])])
      uncommon == options.adaptComplexity /\ lowered \notin commonWords
  IN  [num |-> 60000 * (IF uncommon THEN 6 ELSE 5)
                 + 5 * options.baseWpm * (lengthPenalty + punctuationPause),
       den |-> 5 * options.baseWpm]

\* a pacing engine whose length penalty is not floored at zero
calculateWordDelayUnfloored(word, options) ==
  LET cleanWord == SelectSeq(word, LAMBDA c : c \in WordChars)
      lengthPenalty ==
        IF options.adaptWordLength THEN (Len(cleanWord) - 5) * 12 ELSE 0
      last == IF word = <<>> THEN "" ELSE word[Len(word)]
      punctuationPause ==
        IF ~options.adaptPunctuation THEN 0
        ELSE IF last \in {".", "!", "?"} THEN 150
        ELSE IF last \in {",", ";", ":"} THEN 80
        ELSE IF last \in {"-", EmDash} THEN 50
        ELSE 0
      lowered == Join([i \in 1..Len(cleanWord) |-> toLowerCase(cleanWord[i])])
      uncommon == options.adaptComplexity /\ lowered \notin commonWords
  IN  [num |-> (60000 + options.baseWpm * (lengthPenalty + punctuationPause))
                 * (IF uncommon THEN 6 ELSE 5),
       den |-> 5 * options.baseWpm]

\* The delay is the rational num / den milliseconds, den = 5 * baseWpm:
\* 60000 / baseWpm plus the penalties, times 6/5 for an uncommon word.
calculateWordDelay(word, options) ==
  LET cleanWord == SelectSeq(word, LAMBDA c : c \in WordChars)
      lengthPenalty ==
        IF options.adaptWordLength
        THEN (IF Len(cleanWord) - 5 > 0 THEN Len(cleanWord) - 5 ELSE 0) * 12
        ELSE 0
      last == IF word = <<>> THEN "" ELSE word[Len(word)]
      punctuationPause ==
        IF ~options.adaptPunctuation THEN 0
        ELSE IF last \in {".", "!", "?"} THEN 150
        ELSE IF last \in {",", ";", ":"} THEN 80
        ELSE IF last \in {"-", EmDash} THEN 50
        ELSE 0
      lowered == Join([i \in 1..Len(cleanWord) |-> toLowerCase(cleanWord[i])])
      uncommon == options.adaptComplexity /\ lowered \notin commonWords
  IN  [num |-> (60000 + options.baseWpm * (lengthPenalty + punctuationPause))
                 * (IF uncommon THEN 6 ELSE 5),
       den |-> 5 * options.baseWpm]

\* ------------------------------------------------------------------ reader
\* the reader's state as one record: what the render a handler runs in sees
ReaderState ==
  [readerOpen |-> readerOpen, isPlaying |-> isPlaying, wpm |-> wpm, words |-> words,
   currentIdx |-> currentIdx, timeouts |-> timeouts, effectCleanup |-> effectCleanup,
   adaptWordLength |-> adaptWordLength, adaptPunctuation |-> adaptPunctuation,
   adaptComplexity |-> adaptComplexity, trainingMode |-> trainingMode,
   startWpmRef |-> startWpmRef]

\* clearTimeout(timerRef.current): timerRef designates the timeout armed last
clearTimeout(pending) == SelectSeq(pending, LAMBDA t : ~t.isTimerRef)
\* timerRef.current = setTimeout(callback, delay)
setTimeout(pending, delay) ==
  Append([i \in 1..Len(pending) |-> [pending[i] EXCEPT !.isTimerRef = FALSE]],
         [delay |-> delay, isTimerRef |-> TRUE])

trainingIncrement == 10

\* a ramp that starts from the slider instead of the speed recorded at open
effectiveWpmFromSlider(s) ==
  IF s.trainingMode
  THEN LET increments == s.currentIdx \div 50
           ramped == s.wpm + increments * trainingIncrement
       IN  IF ramped < 800 THEN ramped ELSE 800
  ELSE s.wpm

\* a ramp without its ceiling
effectiveWpmUncapped(s) ==
  IF s.trainingMode
  THEN s.startWpmRef + (s.currentIdx \div 50) * trainingIncrement
  ELSE s.wpm

\* Training mode: the speed the effect paces the word at position s.currentIdx with
effectiveWpm(s) ==
  IF s.trainingMode
  THEN LET increments == s.currentIdx \div 50
           ramped == s.startWpmRef + increments * trainingIncrement
       IN  IF ramped < 800 THEN ramped ELSE 800
  ELSE s.wpm

\* the delay the effect arms its timeout with in state s
WordDelay(s) ==
  calculateWordDelay(s.words[s.currentIdx + 1],
                     AdaptiveOptions(effectiveWpm(s), s.adaptWordLength,
                                     s.adaptPunctuation, s.adaptComplexity))

\* an effect that returns no cleanup
cleanupSkipped(s) == s.timeouts

\* the cleanup the effect's previous run returned, if it returned one
cleanup(s) == IF s.effectCleanup THEN clearTimeout(s.timeouts) ELSE s.timeouts

\* One run of the playback effect in state s: the cleanup of the previous
\* run, then the body.
playbackEffect(s) ==
  LET cleaned == cleanup(s)
  IN  IF ~s.isPlaying \/ ~s.readerOpen
      THEN [s EXCEPT !.timeouts = clearTimeout(cleaned), !.effectCleanup = FALSE]
      ELSE IF s.currentIdx >= Len(s.words)
      THEN [s EXCEPT !.timeouts = cleaned, !.effectCleanup = FALSE, !.isPlaying = FALSE]
      ELSE [s EXCEPT !.timeouts = setTimeout(cleaned, WordDelay(s)), !.effectCleanup = TRUE]

\* a dependency array that leaves out currentIdx
DepsChangedWithoutIdx(a, b) ==
  \/ a.isPlaying # b.isPlaying
  \/ a.wpm # b.wpm
  \/ a.readerOpen # b.readerOpen
  \/ a.adaptWordLength # b.adaptWordLength
  \/ a.adaptPunctuation # b.adaptPunctuation
  \/ a.adaptComplexity # b.adaptComplexity
  \/ a.trainingMode # b.trainingMode

\* a dependency array that leaves out wpm
DepsChangedWithoutWpm(a, b) ==
  \/ a.isPlaying # b.isPlaying
  \/ a.currentIdx # b.currentIdx
  \/ a.readerOpen # b.readerOpen
  \/ a.adaptWordLength # b.adaptWordLength
  \/ a.adaptPunctuation # b.adaptPunctuation
  \/ a.adaptComplexity # b.adaptComplexity
  \/ a.trainingMode # b.trainingMode

\* the effect's dependency array differs between two renders
DepsChanged(a, b) ==
  \/ a.isPlaying # b.isPlaying
  \/ a.currentIdx # b.currentIdx
  \/ a.wpm # b.wpm
  \/ a.readerOpen # b.readerOpen
  \/ a.adaptWordLength # b.adaptWordLength
  \/ a.adaptPunctuation # b.adaptPunctuation
  \/ a.adaptComplexity # b.adaptComplexity
  \/ a.trainingMode # b.trainingMode

\* React renders the state h a handler left and runs the effect if a
\* dependency changed (newWords: setWords was given a new array); the effect's
\* own setIsPlaying(false) causes one more render and run.
Rendered(h, newWords) ==
  LET first == IF newWords \/ DepsChanged(ReaderState, h) THEN playbackEffect(h) ELSE h
  IN  IF DepsChanged(h, first) THEN playbackEffect(first) ELSE first

Render(h, newWords) ==
  \E r \in {Rendered(h, newWords)} :
      /\ readerOpen' = r.readerOpen
      /\ isPlaying' = r.isPlaying
      /\ wpm' = r.wpm
      /\ words' = r.words
      /\ currentIdx' = r.currentIdx
      /\ timeouts' = r.timeouts
      /\ effectCleanup' = r.effectCleanup
      /\ adaptWordLength' = r.adaptWordLength
      /\ adaptPunctuation' = r.adaptPunctuation
      /\ adaptComplexity' = r.adaptComplexity
      /\ trainingMode' = r.trainingMode
      /\ startWpmRef' = r.startWpmRef

\* an open without the two early returns
openReaderUnchecked ==
  Render([ReaderState EXCEPT
            !.words = IF HasNote(activeNoteId)
                      THEN split(trim(stripHtml(NoteById(activeNoteId).content)))
                      ELSE <<>>,
            !.currentIdx = 0,
            !.readerOpen = TRUE,
            !.isPlaying = FALSE,
            !.startWpmRef = wpm],
         TRUE)

\* an open that leaves the position where the last session stopped
openReaderKeepsPosition ==
  IF ~HasNote(activeNoteId) \/ trim(stripHtml(NoteById(activeNoteId).content)) = <<>>
  THEN UNCHANGED readerVars
  ELSE Render([ReaderState EXCEPT
                 !.words = split(trim(stripHtml(NoteById(activeNoteId).content))),
                 !.readerOpen = TRUE,
                 !.isPlaying = FALSE,
                 !.startWpmRef = wpm],
              TRUE)

openReader ==
  IF ~HasNote(activeNoteId) \/ trim(NoteById(activeNoteId).content) = <<>>
  THEN UNCHANGED readerVars
  ELSE LET plainText == stripHtml(NoteById(activeNoteId).content)
       IN  IF trim(plainText) = <<>>
           THEN UNCHANGED readerVars
           ELSE Render([ReaderState EXCEPT !.words = split(trim(plainText)),
                                           !.currentIdx = 0,
                                           !.readerOpen = TRUE,
                                           !.isPlaying = FALSE,
                                           !.startWpmRef = wpm],
                       TRUE)

\* a close that only hides the overlay
closeReaderKeepsPlaying ==
  Render([ReaderState EXCEPT !.readerOpen = FALSE], FALSE)

closeReader ==
  Render([ReaderState EXCEPT !.readerOpen = FALSE,
                             !.isPlaying = FALSE,
                             !.timeouts = clearTimeout(timeouts)],
         FALSE)

\* a toggle without the restart at the end of the text
togglePlayNoRestart ==
  Render([ReaderState EXCEPT !.isPlaying = ~isPlaying], FALSE)

togglePlay ==
  IF currentIdx >= Len(words) /\ Len(words) > 0
  THEN Render([ReaderState EXCEPT !.currentIdx = 0, !.isPlaying = TRUE], FALSE)
  ELSE Render([ReaderState EXCEPT !.isPlaying = ~isPlaying], FALSE)

\* onChange of the seek bar, an <input type="range" min=0 max=words.length-1>
\* a seek that also pauses
seekPauses(value) ==
  Render([ReaderState EXCEPT !.currentIdx = value, !.isPlaying = FALSE], FALSE)

seek(value) ==
  Render([ReaderState EXCEPT !.currentIdx = value], FALSE)

ArrowLeftKey ==
  Render([ReaderState EXCEPT !.currentIdx = IF currentIdx - 1 > 0 THEN currentIdx - 1 ELSE 0],
         FALSE)

\* an ArrowRight clamped to the length of the text, not to its last token
ArrowRightKeyToLength ==
  Render([ReaderState EXCEPT !.currentIdx = IF Len(words) < currentIdx + 1
                                            THEN Len(words)
                                            ELSE currentIdx + 1],
         FALSE)

ArrowRightKey ==
  Render([ReaderState EXCEPT !.currentIdx = IF Len(words) - 1 < currentIdx + 1
                                            THEN Len(words) - 1
                                            ELSE currentIdx + 1],
         FALSE)

setWpm(value) == Render([ReaderState EXCEPT !.wpm = value], FALSE)
setAdaptWordLength(checked) == Render([ReaderState EXCEPT !.adaptWordLength = checked], FALSE)
setAdaptPunctuation(checked) == Render([ReaderState EXCEPT !.adaptPunctuation = checked], FALSE)
setAdaptComplexity(checked) == Render([ReaderState EXCEPT !.adaptComplexity = checked], FALSE)
setTrainingMode(checked) == Render([ReaderState EXCEPT !.trainingMode = checked], FALSE)

\* the i-th pending timeout fires: its callback is setCurrentIdx(prev => prev + 1)
timeoutCallback(i) ==
  Render([ReaderState EXCEPT
            !.currentIdx = currentIdx + 1,
            !.timeouts = SubSeq(timeouts, 1, i - 1) \o SubSeq(timeouts, i + 1, Len(timeouts))],
         FALSE)

\* ------------------------------------------------- what the sidebar offers
\* a place a new item is created in: the toolbar (root) or a folder row
Places == {NULL} \cup {f.id : f \in Range(folders)}
\* note rows are draggable in the tree only; the Trash list has no drag
Draggable ==
  {DraggedItem(n.id, "note") : n \in {m \in Range(notes) : m.folderId # TRASH_FOLDER_ID}}
    \cup {DraggedItem(f.id, "folder") : f \in Range(folders)}
\* the Trash section is rendered only while some note is in Trash
TrashShown == \E n \in Range(notes) : n.folderId = TRASH_FOLDER_ID

\* the sidebar and the reader are rendered once isLoaded is set, when
\* loadAppData has returned: none of their handlers touches the load
\* ------------------------------------------------------------------ saving
\* The save effect, useEffect(..., [notes, folders, isLoaded]), as the render
\* after a handler runs it: when a dependency changed, the cleanup of its
\* previous run clears the timer that run set, then the body runs with the
\* collections of this render. window.api.saveData is there unless
\* loadAppData found window.api missing.
\* a save effect without the isInitialMount ref
saveDataEffectOnLoad ==
  IF notes' = notes /\ folders' = folders /\ isLoaded' = isLoaded
  THEN UNCHANGED <<isInitialMount, saveTimeouts>>
  ELSE IF ~isLoaded' \/ "window.api not available:" \in Range(consoleErrors')
  THEN saveTimeouts' = <<>> /\ UNCHANGED isInitialMount
  ELSE /\ saveTimeouts' = <<[delay |-> 500, data |-> [folders |-> folders', notes |-> notes']]>>
       /\ UNCHANGED isInitialMount

saveDataEffect ==
  IF notes' = notes /\ folders' = folders /\ isLoaded' = isLoaded
  THEN UNCHANGED <<isInitialMount, saveTimeouts>>
  ELSE IF ~isLoaded' \/ "window.api not available:" \in Range(consoleErrors')
  THEN saveTimeouts' = <<>> /\ UNCHANGED isInitialMount
  ELSE IF isInitialMount
  THEN saveTimeouts' = <<>> /\ isInitialMount' = FALSE
  ELSE /\ saveTimeouts' = <<[delay |-> 500, data |-> [folders |-> folders', notes |-> notes']]>>
       /\ UNCHANGED isInitialMount

\* the callback of a pending timer of the save effect
saveTimeoutCallback(i) ==
  /\ saveDataCalls' = Append(saveDataCalls, saveTimeouts[i].data)
  /\ saveTimeouts' = SubSeq(saveTimeouts, 1, i - 1)
                       \o SubSeq(saveTimeouts, i + 1, Len(saveTimeouts))
  /\ UNCHANGED <<treeVars, readerVars, historyVars, loadVars, isInitialMount>>

\* a handler of the sidebar leaves the reader alone; the render after it runs
\* the save effect
ReaderIdle ==
  /\ UNCHANGED <<readerVars, historyVars, loadVars>>
  /\ saveDataEffect
  /\ UNCHANGED saveDataCalls
TreeIdle == UNCHANGED <<treeVars, loadVars, saveVars>>

CreateNote == (\E p \in Places : createNote(p)) /\ ReaderIdle
CreateFolder == (\E p \in Places : createFolder(p)) /\ ReaderIdle
DeleteNote == (\E id \in NoteIds : deleteNote(id)) /\ ReaderIdle
DeleteFolder == (\E id \in FolderIds : deleteFolder(id)) /\ ReaderIdle
EmptyTrash == TrashShown /\ emptyTrash /\ ReaderIdle
\* the restore button is a button of a row of the Trash list
RestoreNote ==
  /\ \E id \in NoteIds :
       /\ HasNote(id) => NoteById(id).folderId = TRASH_FOLDER_ID
       /\ restoreNote(id)
  /\ ReaderIdle
DropOnFolder ==
  /\ \E d \in Draggable, t \in FolderIds : HasFolder(t) /\ handleDropOnFolder(d, t)
  /\ ReaderIdle
DropOnRoot == (\E d \in Draggable : handleDropOnRoot(d)) /\ ReaderIdle
DropOnTrash == TrashShown /\ (\E d \in Draggable : handleDropOnTrash(d)) /\ ReaderIdle
SelectNote == (\E n \in Range(notes) : selectNote(n.id)) /\ ReaderIdle
\* the editor shows the active note and reports every change of its HTML
EditNote ==
  /\ HasNote(activeNoteId)
  /\ \E c \in Contents : updateNote(activeNoteId, [content |-> c])
  /\ ReaderIdle
RenameFolder ==
  /\ \E id \in FolderIds, nm \in FolderNames : updateFolder(id, [name |-> nm])
  /\ ReaderIdle
ToggleCollapse == (\E id \in FolderIds : toggleFolderCollapse(id)) /\ ReaderIdle

\* loadAppData has returned and has logged nothing
Loaded ==
  /\ isLoaded = TRUE /\ loadAppData = "returned" /\ consoleErrors = <<>>
  /\ isInitialMount = FALSE /\ saveTimeouts = <<>> /\ saveDataCalls = <<>>

\* the state of a freshly mounted App whose store is empty
Init ==
  /\ Loaded
  /\ notes = <<>>
  /\ folders = <<>>
  /\ activeNoteId = EMPTY
  /\ nextNoteUuid = 0
  /\ nextFolderUuid = 0
  /\ readerOpen = FALSE
  /\ isPlaying = FALSE
  /\ wpm = 300
  /\ words = <<>>
  /\ currentIdx = 0
  /\ timeouts = <<>>
  /\ effectCleanup = FALSE
  /\ adaptWordLength = TRUE
  /\ adaptPunctuation = TRUE
  /\ adaptComplexity = FALSE
  /\ trainingMode = FALSE
  /\ startWpmRef = 300
  /\ advances = 0
  /\ finishes = 0

\* every operation of the sidebar and the editor
Next ==
  \/ CreateNote
  \/ CreateFolder
  \/ DeleteNote
  \/ DeleteFolder
  \/ EmptyTrash
  \/ RestoreNote
  \/ DropOnFolder
  \/ DropOnRoot
  \/ DropOnTrash
  \/ SelectNote
  \/ EditNote
  \/ RenameFolder
  \/ ToggleCollapse

Spec == Init /\ [][Next]_vars

\* Tree Store: the operations that place, move and remove notes and folders,
\* and the editor
TreeNext ==
  \/ CreateNote
  \/ CreateFolder
  \/ DeleteNote
  \/ DeleteFolder
  \/ EmptyTrash
  \/ RestoreNote
  \/ DropOnFolder
  \/ DropOnRoot
  \/ DropOnTrash
  \/ SelectNote
  \/ EditNote

\* the store after a first folder was created and deleted again: it is
\* empty, and one folder identity is used up
TreeInit ==
  /\ Loaded
  /\ notes = <<>>
  /\ folders = <<>>
  /\ activeNoteId = EMPTY
  /\ nextNoteUuid = 0
  /\ nextFolderUuid = 1
  /\ readerOpen = FALSE
  /\ isPlaying = FALSE
  /\ wpm = 300
  /\ words = <<>>
  /\ currentIdx = 0
  /\ timeouts = <<>>
  /\ effectCleanup = FALSE
  /\ adaptWordLength = TRUE
  /\ adaptPunctuation = TRUE
  /\ adaptComplexity = FALSE
  /\ trainingMode = FALSE
  /\ startWpmRef = 300
  /\ advances = 0
  /\ finishes = 0

TreeSpec == TreeInit /\ [][TreeNext]_vars

\* the store after a first note was created, trashed and deleted for good:
\* it is empty, nothing is selected, and one note identity is used up
FolderInit ==
  /\ Loaded
  /\ notes = <<>>
  /\ folders = <<>>
  /\ activeNoteId = NULL
  /\ nextNoteUuid = 1
  /\ nextFolderUuid = 0
  /\ readerOpen = FALSE
  /\ isPlaying = FALSE
  /\ wpm = 300
  /\ words = <<>>
  /\ currentIdx = 0
  /\ timeouts = <<>>
  /\ effectCleanup = FALSE
  /\ adaptWordLength = TRUE
  /\ adaptPunctuation = TRUE
  /\ adaptComplexity = FALSE
  /\ trainingMode = FALSE
  /\ startWpmRef = 300
  /\ advances = 0
  /\ finishes = 0

FolderNext ==
  \/ CreateNote
  \/ CreateFolder
  \/ DeleteNote
  \/ DeleteFolder
  \/ EmptyTrash
  \/ RestoreNote
  \/ DropOnFolder
  \/ DropOnRoot
  \/ DropOnTrash
  \/ SelectNote
  \/ EditNote

FolderSpec == FolderInit /\ [][FolderNext]_vars

\* ------------------------------------------------------------ folder rows
\* Folder rows: folders and notes are created in place, folders are renamed
\* and collapsed, notes are selected
RowsNext ==
  \/ CreateNote
  \/ CreateFolder
  \/ RenameFolder
  \/ ToggleCollapse
  \/ SelectNote

RowsSpec == TreeInit /\ [][RowsNext]_vars

\* ------------------------------------------------------------ note shelf
\* The app started on saved data of one folder and one note, which the load
\* selects; the sidebar then creates, selects, deletes and restores notes.
SavedNoteId == NoteUuids[6]
SavedFolderId == FolderUuids[6]
NoteCreate == (\E p \in Places : createNote(p)) /\ ReaderIdle
NoteDelete == (\E n \in Range(notes) : deleteNote(n.id)) /\ ReaderIdle
NoteRestore ==
  /\ \E n \in Range(notes) : n.folderId = TRASH_FOLDER_ID /\ restoreNote(n.id)
  /\ ReaderIdle

ShelfInit ==
  /\ Loaded
  /\ \E place \in {NULL, SavedFolderId, TRASH_FOLDER_ID} :
       notes = <<[id |-> SavedNoteId, title |-> "", content |-> ShortContent,
                  folderId |-> place,
                  previousFolderId |-> IF place = TRASH_FOLDER_ID
                                       THEN SavedFolderId ELSE UNDEFINED,
                  order |-> 0]>>
  /\ folders = <<[id |-> SavedFolderId, name |-> "Untitled", parentId |-> NULL,
                  collapsed |-> FALSE, order |-> 0]>>
  /\ activeNoteId = SavedNoteId
  /\ nextNoteUuid = 0
  /\ nextFolderUuid = 0
  /\ readerOpen = FALSE
  /\ isPlaying = FALSE
  /\ wpm = 300
  /\ words = <<>>
  /\ currentIdx = 0
  /\ timeouts = <<>>
  /\ effectCleanup = FALSE
  /\ adaptWordLength = TRUE
  /\ adaptPunctuation = TRUE
  /\ adaptComplexity = FALSE
  /\ trainingMode = FALSE
  /\ startWpmRef = 300
  /\ advances = 0
  /\ finishes = 0

ShelfNext ==
  \/ NoteCreate
  \/ NoteDelete
  \/ NoteRestore
  \/ EmptyTrash
  \/ SelectNote

ShelfSpec == ShelfInit /\ [][ShelfNext]_vars

\* --------------------------------------------------------- reader sessions
\* the editor's HTML of the note the reader sessions read
OneWordContent == <<"<p>", "G", "o", "</p>">>
StoryContent ==
  <<"<h1>", "R", "e", "a", "d", "l", "y", "</h1>",
    "<p>", "I", "t", " ", " ", "p", "a", "c", "e", "s", " ",
    "e", "x", "t", "r", "a", "o", "r", "d", "i", "n", "a", "r", "y", ",", " ",
    "w", "e", "l", "l", "-", "</p>">>
ReaderContents == {EmptyParagraph, OneWordContent, ShortContent, StoryContent}
\* positions of the speed slider (min 100, max 800)
WpmValues == {100, 300, 795}

OpenReader == openReader /\ TreeIdle /\ UNCHANGED historyVars
\* the close button, or Escape
CloseReader == readerOpen /\ closeReader /\ TreeIdle /\ UNCHANGED historyVars
\* the play button, or Space
TogglePlay == readerOpen /\ togglePlay /\ TreeIdle /\ UNCHANGED historyVars
Seek ==
  /\ readerOpen
  /\ \E v \in 0..(Len(words) - 1) : seek(v)
  /\ TreeIdle /\ UNCHANGED historyVars
ArrowLeft == readerOpen /\ ArrowLeftKey /\ TreeIdle /\ UNCHANGED historyVars
ArrowRight == readerOpen /\ ArrowRightKey /\ TreeIdle /\ UNCHANGED historyVars
SetWpm ==
  /\ readerOpen
  /\ \E v \in WpmValues : setWpm(v)
  /\ TreeIdle /\ UNCHANGED historyVars
SetAdaptWordLength ==
  readerOpen /\ setAdaptWordLength(~adaptWordLength) /\ TreeIdle /\ UNCHANGED historyVars
SetAdaptPunctuation ==
  readerOpen /\ setAdaptPunctuation(~adaptPunctuation) /\ TreeIdle /\ UNCHANGED historyVars
SetAdaptComplexity ==
  readerOpen /\ setAdaptComplexity(~adaptComplexity) /\ TreeIdle /\ UNCHANGED historyVars
SetTrainingMode ==
  readerOpen /\ setTrainingMode(~trainingMode) /\ TreeIdle /\ UNCHANGED historyVars
TimerFire ==
  /\ \E i \in 1..Len(timeouts) : timeoutCallback(i)
  /\ TreeIdle /\ UNCHANGED historyVars
\* typing in the editor of the active note
TypeText ==
  /\ HasNote(activeNoteId)
  /\ \E c \in ReaderContents : updateNote(activeNoteId, [content |-> c])
  /\ ReaderIdle

\* one note, just created and selected
ReaderInit ==
  /\ Loaded
  /\ notes = <<[id |-> NoteUuids[1], title |-> "", content |-> EmptyContent,
               folderId |-> NULL, previousFolderId |-> UNDEFINED, order |-> 0]>>
  /\ folders = <<>>
  /\ activeNoteId = NoteUuids[1]
  /\ nextNoteUuid = 1
  /\ nextFolderUuid = 0
  /\ readerOpen = FALSE
  /\ isPlaying = FALSE
  /\ wpm = 300
  /\ words = <<>>
  /\ currentIdx = 0
  /\ timeouts = <<>>
  /\ effectCleanup = FALSE
  /\ adaptWordLength = TRUE
  /\ adaptPunctuation = TRUE
  /\ adaptComplexity = FALSE
  /\ trainingMode = FALSE
  /\ startWpmRef = 300
  /\ advances = 0
  /\ finishes = 0

ReaderNext ==
  \/ TypeText
  \/ OpenReader
  \/ CloseReader
  \/ TogglePlay
  \/ Seek
  \/ ArrowLeft
  \/ ArrowRight
  \/ SetWpm
  \/ SetAdaptWordLength
  \/ SetAdaptPunctuation
  \/ SetAdaptComplexity
  \/ SetTrainingMode
  \/ TimerFire

ReaderSpec == ReaderInit /\ [][ReaderNext]_vars

\* ------------------------------------------------- reader and note sidebar
\* Opening, playing and closing the reader, together with the sidebar's
\* delete, which the reader overlay covers while it is open.
DeleteNoteClosed == ~readerOpen /\ DeleteNote

OpenNext ==
  \/ TypeText
  \/ OpenReader
  \/ CloseReader
  \/ TogglePlay
  \/ SetWpm
  \/ TimerFire
  \/ DeleteNoteClosed

OpenSpec == ReaderInit /\ [][OpenNext]_vars

\* ------------------------------------------------ one uninterrupted session
\* the token lists openReader produces from the contents it accepts
PlayWordLists == {split(trim(stripHtml(c))) : c \in ReaderContents \ {EmptyParagraph}}

\* the state openReader leaves: reader open at position 0, not playing, the
\* start speed recorded; the settings are whatever the user chose before
PlayInit ==
  /\ Loaded
  /\ \E c \in ReaderContents \ {EmptyParagraph} :
       /\ notes = <<[id |-> NoteUuids[1], title |-> "", content |-> c,
                     folderId |-> NULL, previousFolderId |-> UNDEFINED, order |-> 0]>>
       /\ words = split(trim(stripHtml(c)))
  /\ folders = <<>>
  /\ activeNoteId = NoteUuids[1]
  /\ nextNoteUuid = 1
  /\ nextFolderUuid = 0
  /\ readerOpen = TRUE
  /\ isPlaying = FALSE
  /\ wpm \in WpmValues
  /\ currentIdx = 0
  /\ timeouts = <<>>
  /\ effectCleanup = FALSE
  /\ adaptWordLength \in BOOLEAN
  /\ adaptPunctuation \in BOOLEAN
  /\ adaptComplexity \in BOOLEAN
  /\ trainingMode \in BOOLEAN
  /\ startWpmRef = wpm
  /\ advances = 0
  /\ finishes = 0

\* the one user input of the session: play, from the freshly opened reader
PlayStart ==
  /\ readerOpen /\ ~isPlaying /\ currentIdx = 0
  /\ togglePlay
  /\ TreeIdle /\ UNCHANGED historyVars

\* a scheduled advance fires; the history variables count it, and count the
\* effect's setIsPlaying(false) at the end of the text
PlayAdvance ==
  /\ \E i \in 1..Len(timeouts) : timeoutCallback(i)
  /\ TreeIdle
  /\ advances' = advances + 1
  /\ finishes' = finishes + (IF isPlaying /\ ~isPlaying' THEN 1 ELSE 0)

PlayNext ==
  \/ PlayStart
  \/ PlayAdvance

PlaySpec == PlayInit /\ [][PlayNext]_vars
\* a timeout that is not cleared runs its callback after its delay
PlayFairSpec == PlayInit /\ [][PlayNext]_vars /\ WF_vars(PlayAdvance)

\* ------------------------------------------------------- pacing one token
\* notes of one paragraph of one token, for the pacing engine alone
PaceTokens ==
  { <<"t", "h", "e">>,
    <<"T", "h", "e">>,
    <<"p", "a", "c", "e", "s">>,
    <<"r", "e", "a", "d", "e", "r">>,
    <<"i", "t", "'", "s">>,
    <<"W", "h", "y", "?">>,
    <<"1", "9", "8", "4", ";">>,
    <<"w", "e", "l", "l", "-">>,
    <<EmDash>>,
    <<"e", "x", "t", "r", "a", "o", "r", "d", "i", "n", "a", "r", "y", ".">> }
\* positions of the speed slider, its two ends included
PaceWpmValues == {100, 300, 795, 800}

\* the reader freshly opened on a note of one token
PaceInit ==
  /\ Loaded
  /\ \E w \in PaceTokens :
       /\ notes = <<[id |-> NoteUuids[1], title |-> "",
                     content |-> <<"<p>">> \o w \o <<"</p>">>,
                     folderId |-> NULL, previousFolderId |-> UNDEFINED, order |-> 0]>>
       /\ words = split(trim(stripHtml(<<"<p>">> \o w \o <<"</p>">>)))
  /\ folders = <<>>
  /\ activeNoteId = NoteUuids[1]
  /\ nextNoteUuid = 1
  /\ nextFolderUuid = 0
  /\ readerOpen = TRUE
  /\ isPlaying = FALSE
  /\ wpm \in PaceWpmValues
  /\ currentIdx = 0
  /\ timeouts = <<>>
  /\ effectCleanup = FALSE
  /\ adaptWordLength \in BOOLEAN
  /\ adaptPunctuation \in BOOLEAN
  /\ adaptComplexity \in BOOLEAN
  /\ trainingMode = FALSE
  /\ startWpmRef = wpm
  /\ advances = 0
  /\ finishes = 0

PaceSpec == PaceInit /\ [][PlayNext]_vars

\* ------------------------------------------------------ pacing two tokens
\* notes of one paragraph of two tokens: the reader paces one, then the other
PairTokens ==
  { <<"'">>,
    <<"G", "o">>,
    <<"p", "a", "c", "e", "s">>,
    <<"r", "e", "a", "d", "e", "r">>,
    <<"e", "x", "t", "r", "a", "o", "r", "d", "i", "n", "a", "r", "y">>,
    <<".">>,
    <<"e", "n", "d", ".">>,
    <<"r", "e", "a", "d", "e", "r", ".">>,
    <<"a">>,
    <<"t", "h", "e", "s", "e">>,
    <<"b", "e", "f", "o", "r", "e">>,
    <<"a", "l", "t", "h", "o", "u", "g", "h">> }
PairContent(u, v) == <<"<p>">> \o u \o <<" ">> \o v \o <<"</p>">>

\* the reader freshly opened on a note of two tokens
PairInit ==
  /\ Loaded
  /\ \E u, v \in PairTokens :
       /\ notes = <<[id |-> NoteUuids[1], title |-> "", content |-> PairContent(u, v),
                     folderId |-> NULL, previousFolderId |-> UNDEFINED, order |-> 0]>>
       /\ words = split(trim(stripHtml(PairContent(u, v))))
  /\ folders = <<>>
  /\ activeNoteId = NoteUuids[1]
  /\ nextNoteUuid = 1
  /\ nextFolderUuid = 0
  /\ readerOpen = TRUE
  /\ isPlaying = FALSE
  /\ wpm \in {100, 800}
  /\ currentIdx = 0
  /\ timeouts = <<>>
  /\ effectCleanup = FALSE
  /\ adaptWordLength \in BOOLEAN
  /\ adaptPunctuation \in BOOLEAN
  /\ adaptComplexity \in BOOLEAN
  /\ trainingMode = FALSE
  /\ startWpmRef = wpm
  /\ advances = 0
  /\ finishes = 0

PairSpec == PairInit /\ [][PlayNext]_vars

\* --------------------------------------------------------- training ramp
\* the tokens of the long text, and the paragraph the editor holds for them:
\* "go go ... go"
LongWords == [i \in 1..MaxTokens |-> <<"g", "o">>]
LongContent ==
  [i \in 1..(3 * MaxTokens + 1) |->
     IF i = 1 THEN "<p>"
     ELSE IF i = 3 * MaxTokens + 1 THEN "</p>"
     ELSE IF (i - 2) % 3 = 0 THEN "g"
     ELSE IF (i - 2) % 3 = 1 THEN "o"
     ELSE " "]
\* speeds the settings file can hold when the app loads it
SavedWpmValues == {300, 790, 900}

\* the reader freshly opened on the long text
RampInit ==
  /\ Loaded
  /\ notes = <<[id |-> NoteUuids[1], title |-> "", content |-> LongContent,
               folderId |-> NULL, previousFolderId |-> UNDEFINED, order |-> 0]>>
  /\ words = LongWords
  /\ folders = <<>>
  /\ activeNoteId = NoteUuids[1]
  /\ nextNoteUuid = 1
  /\ nextFolderUuid = 0
  /\ readerOpen = TRUE
  /\ isPlaying = FALSE
  /\ wpm \in SavedWpmValues
  /\ currentIdx = 0
  /\ timeouts = <<>>
  /\ effectCleanup = FALSE
  /\ adaptWordLength = TRUE
  /\ adaptPunctuation = TRUE
  /\ adaptComplexity = FALSE
  /\ trainingMode \in BOOLEAN
  /\ startWpmRef = wpm
  /\ advances = 0
  /\ finishes = 0

RampNext ==
  \/ PlayStart
  \/ PlayAdvance
  \/ SetWpm
  \/ SetTrainingMode

RampSpec == RampInit /\ [][RampNext]_vars

\* --------------------------------------------------------- recorded session
\* A reader session from the freshly opened reader under every input of the
\* reader's controls; the history variables count the advances fired and the
\* times playback stopped at the end of the text.
SessionToggle == readerOpen /\ togglePlay /\ TreeIdle /\ UNCHANGED historyVars
SessionAdvance == advances < MaxAdvances /\ PlayAdvance
SessionSeek ==
  /\ readerOpen
  /\ \E v \in 0..(Len(words) - 1) : seek(v)
  /\ TreeIdle /\ UNCHANGED historyVars
SessionArrowLeft == readerOpen /\ ArrowLeftKey /\ TreeIdle /\ UNCHANGED historyVars
SessionArrowRight == readerOpen /\ ArrowRightKey /\ TreeIdle /\ UNCHANGED historyVars
SessionClose == readerOpen /\ closeReader /\ TreeIdle /\ UNCHANGED historyVars
\* the Reader button is under the overlay while the reader is open
SessionOpen == ~readerOpen /\ openReader /\ TreeIdle /\ UNCHANGED historyVars

SessionNext ==
  \/ SessionToggle
  \/ SessionAdvance
  \/ SessionSeek
  \/ SessionArrowLeft
  \/ SessionArrowRight
  \/ SessionClose
  \/ SessionOpen

\* the reader freshly opened with the pacing settings the app starts with
SessionInit ==
  /\ PlayInit
  /\ wpm = 300 /\ adaptWordLength /\ adaptPunctuation /\ ~adaptComplexity

SessionSpec == SessionInit /\ [][SessionNext]_vars

\* ------------------------------------------------------------- tokens
\* what a note content is made of here: letters, punctuation, the three
\* kinds of whitespace, an inline tag and the end of a paragraph
TextItems == {"a", "b", ".", " ", "\n", "\t", "<strong>", "</p>"}
RECURSIVE TextsOfLength(_)
TextsOfLength(k) ==
  IF k = 0 THEN {<<>>}
  ELSE {Append(t, c) : t \in TextsOfLength(k - 1), c \in TextItems}
SegmentTexts == UNION {TextsOfLength(k) : k \in 0..MaxTextLength}

\* one note of any content, selected, the reader closed
SegmentInit ==
  /\ Loaded
  /\ \E c \in SegmentTexts :
       notes = <<[id |-> NoteUuids[1], title |-> "", content |-> c,
                  folderId |-> NULL, previousFolderId |-> UNDEFINED, order |-> 0]>>
  /\ folders = <<>>
  /\ activeNoteId = NoteUuids[1]
  /\ nextNoteUuid = 1
  /\ nextFolderUuid = 0
  /\ readerOpen = FALSE
  /\ isPlaying = FALSE
  /\ wpm = 300
  /\ words = <<>>
  /\ currentIdx = 0
  /\ timeouts = <<>>
  /\ effectCleanup = FALSE
  /\ adaptWordLength = TRUE
  /\ adaptPunctuation = TRUE
  /\ adaptComplexity = FALSE
  /\ trainingMode = FALSE
  /\ startWpmRef = 300
  /\ advances = 0
  /\ finishes = 0

SegmentNext ==
  \/ OpenReader
  \/ CloseReader

SegmentSpec == SegmentInit /\ [][SegmentNext]_vars

\* -------------------------------------------------------- focus character
\* String.prototype.substring for 0 <= start <= end: both ends are clamped
\* to the length of the string
substring(word, start, end) ==
  SubSeq(word,
         (IF start < Len(word) THEN start ELSE Len(word)) + 1,
         IF end < Len(word) THEN end ELSE Len(word))

\* a recognition point at the middle of the word
getORPMiddle(word) ==
  LET index == Len(word) \div 2
  IN  [prefix |-> substring(word, 0, index),
       char |-> substring(word, index, index + 1),
       suffix |-> substring(word, index + 1, Len(word))]

\* ORP (Optimal Recognition Point) calculator
getORP(word) ==
  LET len == Len(word)
      index == IF len <= 1 THEN 0
               ELSE IF len <= 5 THEN 1
               ELSE IF len <= 9 THEN 2
               ELSE IF len <= 13 THEN 3
               ELSE 4
  IN  [prefix |-> substring(word, 0, index),
       char |-> substring(word, index, index + 1),
       suffix |-> substring(word, index + 1, Len(word))]

\* words[currentIdx] || '': the empty string once the index is past the end
currentWord == IF currentIdx < Len(words) THEN words[currentIdx + 1] ELSE <<>>
\* what the reader displays
orp == getORP(currentWord)

Alphabet ==
  <<"a", "b", "c", "d", "e", "f", "g", "h", "i", "j", "k", "l", "m",
    "n", "o", "p", "q", "r", "s", "t", "u", "v", "w", "x", "y", "z">>
\* one token of every length up to the bound, no letter twice in a row
FocusTokens ==
  {[i \in 1..k |-> Alphabet[((i - 1) % 26) + 1]] : k \in 1..MaxWordLength}

\* the reader freshly opened on a note of two tokens of any two lengths
FocusInit ==
  /\ Loaded
  /\ \E u, v \in FocusTokens :
       /\ notes = <<[id |-> NoteUuids[1], title |-> "", content |-> PairContent(u, v),
                     folderId |-> NULL, previousFolderId |-> UNDEFINED, order |-> 0]>>
       /\ words = split(trim(stripHtml(PairContent(u, v))))
  /\ folders = <<>>
  /\ activeNoteId = NoteUuids[1]
  /\ nextNoteUuid = 1
  /\ nextFolderUuid = 0
  /\ readerOpen = TRUE
  /\ isPlaying = FALSE
  /\ wpm = 300
  /\ currentIdx = 0
  /\ timeouts = <<>>
  /\ effectCleanup = FALSE
  /\ adaptWordLength = TRUE
  /\ adaptPunctuation = TRUE
  /\ adaptComplexity = FALSE
  /\ trainingMode = FALSE
  /\ startWpmRef = 300
  /\ advances = 0
  /\ finishes = 0

FocusSpec == FocusInit /\ [][PlayNext]_vars

\* ------------------------------------------------------------------- load
\* A value that can be null is the sequence of at most one value.
Null == <<>>
SavedNote(place) ==
  [id |-> SavedNoteId, title |-> "", content |-> ShortContent,
   folderId |-> place,
   previousFolderId |-> IF place = TRASH_FOLDER_ID THEN SavedFolderId ELSE UNDEFINED,
   order |-> 0]
SavedFolder ==
  [id |-> SavedFolderId, name |-> "Untitled", parentId |-> NULL,
   collapsed |-> FALSE, order |-> 0]
\* what window.api.loadData can resolve with
SavedData ==
  {Null, <<[notes |-> <<>>, folders |-> <<>>]>>}
    \cup {<<[notes |-> <<SavedNote(place)>>, folders |-> <<SavedFolder>>]>> :
            place \in {NULL, SavedFolderId, TRASH_FOLDER_ID}}
\* what window.api.loadSettings can resolve with
SavedSettings ==
  {Null}
    \cup {<<[wpm |-> w, adaptWordLength |-> FALSE, adaptPunctuation |-> TRUE,
             adaptComplexity |-> TRUE, trainingMode |-> TRUE]>> : w \in SavedWpmValues}

\* the effect of the first render calls loadAppData, which logs and returns
\* when the preload script has not provided window.api.loadData, and
\* otherwise awaits the data and the settings
loadAppDataCalled(apiAvailable) ==
  /\ loadAppData = "mounted"
  /\ IF ~apiAvailable
     THEN /\ consoleErrors' = Append(consoleErrors, "window.api not available:")
          /\ isLoaded' = TRUE
          /\ loadAppData' = "returned"
     ELSE /\ loadAppData' = "awaiting"
          /\ UNCHANGED <<isLoaded, consoleErrors>>
  /\ UNCHANGED <<treeVars, readerVars, historyVars>>

\* both promises resolved: the try block runs to its end
loadAppDataResolved(savedData, savedSettings) ==
  /\ loadAppData = "awaiting"
  /\ IF savedData # Null
     THEN /\ notes' = savedData[1].notes
          /\ folders' = savedData[1].folders
          /\ activeNoteId' = IF Len(savedData[1].notes) > 0
                             THEN savedData[1].notes[1].id
                             ELSE activeNoteId
     ELSE UNCHANGED <<notes, folders, activeNoteId>>
  /\ IF savedSettings # Null
     THEN /\ wpm' = savedSettings[1].wpm
          /\ adaptWordLength' = savedSettings[1].adaptWordLength
          /\ adaptPunctuation' = savedSettings[1].adaptPunctuation
          /\ adaptComplexity' = savedSettings[1].adaptComplexity
          /\ trainingMode' = savedSettings[1].trainingMode
     ELSE UNCHANGED <<wpm, adaptWordLength, adaptPunctuation, adaptComplexity, trainingMode>>
  /\ isLoaded' = TRUE
  /\ loadAppData' = "returned"
  /\ UNCHANGED <<nextNoteUuid, nextFolderUuid, readerOpen, isPlaying, words, currentIdx,
                 timeouts, effectCleanup, startWpmRef, historyVars, consoleErrors>>

\* a catch block that logs and leaves the loading screen up
loadAppDataRejectedStaysLoading ==
  /\ loadAppData = "awaiting"
  /\ consoleErrors' = Append(consoleErrors, "Failed to load data:")
  /\ loadAppData' = "returned"
  /\ UNCHANGED <<isLoaded, treeVars, readerVars, historyVars>>

\* one of the two promises rejected: the catch block logs, and nothing of
\* the try block after the awaits has run
loadAppDataRejected ==
  /\ loadAppData = "awaiting"
  /\ consoleErrors' = Append(consoleErrors, "Failed to load data:")
  /\ isLoaded' = TRUE
  /\ loadAppData' = "returned"
  /\ UNCHANGED <<treeVars, readerVars, historyVars>>

\* the render after each step of the load runs the save effect
LoadCalled ==
  /\ \E apiAvailable \in BOOLEAN : loadAppDataCalled(apiAvailable)
  /\ saveDataEffect
  /\ UNCHANGED saveDataCalls
LoadResolved ==
  /\ \E savedData \in SavedData, savedSettings \in SavedSettings :
       loadAppDataResolved(savedData, savedSettings)
  /\ saveDataEffect
  /\ UNCHANGED saveDataCalls
LoadRejected ==
  /\ loadAppDataRejected
  /\ saveDataEffect
  /\ UNCHANGED saveDataCalls

\* the App just constructed: the loading screen, the load effect not yet run
MountInit ==
  /\ notes = <<>>
  /\ folders = <<>>
  /\ activeNoteId = EMPTY
  /\ nextNoteUuid = 0
  /\ nextFolderUuid = 0
  /\ readerOpen = FALSE
  /\ isPlaying = FALSE
  /\ wpm = 300
  /\ words = <<>>
  /\ currentIdx = 0
  /\ timeouts = <<>>
  /\ effectCleanup = FALSE
  /\ adaptWordLength = TRUE
  /\ adaptPunctuation = TRUE
  /\ adaptComplexity = FALSE
  /\ trainingMode = FALSE
  /\ startWpmRef = 300
  /\ advances = 0
  /\ finishes = 0
  /\ isLoaded = FALSE
  /\ loadAppData = "mounted"
  /\ consoleErrors = <<>>
  /\ isInitialMount = TRUE
  /\ saveTimeouts = <<>>
  /\ saveDataCalls = <<>>

\* the load, then the sidebar, which is rendered once isLoaded is set
MountNext ==
  \/ LoadCalled
  \/ LoadResolved
  \/ LoadRejected
  \/ isLoaded /\ CreateNote
  \/ isLoaded /\ CreateFolder
  \/ isLoaded /\ NoteDelete
  \/ isLoaded /\ SelectNote

MountSpec == MountInit /\ [][MountNext]_vars

\* ------------------------------------------------------------ load and save
\* The load, then handlers of the sidebar that change notes, folders or
\* neither, and the timer of the save effect.
SaveFires ==
  /\ Len(saveDataCalls) < MaxSaves
  /\ \E i \in 1..Len(saveTimeouts) : saveTimeoutCallback(i)

\* the chevron of a folder row that is rendered
SaveToggleCollapse ==
  /\ isLoaded
  /\ \E f \in Range(folders) : toggleFolderCollapse(f.id)
  /\ ReaderIdle

SaveNext ==
  \/ LoadCalled
  \/ LoadResolved
  \/ LoadRejected
  \/ isLoaded /\ CreateNote
  \/ isLoaded /\ NoteDelete
  \/ SaveToggleCollapse
  \/ isLoaded /\ SelectNote
  \/ SaveFires

SaveSpec == MountInit /\ [][SaveNext]_vars

\* ------------------------------------------------------- training session
\* One training session on the long text, opened at the speed the app
\* starts with: play, pause, advances, seek bar and arrow keys
TrainInit ==
  /\ RampInit
  /\ trainingMode /\ wpm = 300

TrainNext ==
  \/ SessionToggle
  \/ SessionAdvance
  \/ SessionSeek
  \/ SessionArrowLeft
  \/ SessionArrowRight

TrainSpec == TrainInit /\ [][TrainNext]_vars

\* ------------------------------------------------------------- properties
\* the folders reached from folder id by following parentId at most k times
RECURSIVE Up(_, _)
Up(id, k) ==
  IF k = 0 \/ ~HasFolder(id) THEN {}
  ELSE {FolderById(id).parentId} \cup Up(FolderById(id).parentId, k - 1)
Ancestors(id) == Up(id, Len(folders))
\* the position of a folder identity in the order of creation
Created(id) == CHOOSE k \in 1..Len(FolderUuids) : FolderUuids[k] = id

\* C1: after any sequence of createFolder, folder drops (on a folder or on
\* root) and deleteFolder the parentId graph is acyclic: no folder is
\* reachable from itself by following parentId.
C1_Acyclic == \A f \in Range(folders) : f.id \notin Ancestors(f.id)

\* a chain three folders deep whose top was created last: moves made it
C1_Witness ==
  \E a, b, c \in Range(folders) :
    /\ a.parentId = b.id /\ b.parentId = c.id
    /\ Created(c.id) > Created(b.id) /\ Created(b.id) > Created(a.id)

\* C2: dropping a folder on itself or on one of its descendants is declined
\* and changes nothing: notes, folders and the selection stay as they were.
C2_DeclinedMoveIsNoOp ==
  [][\A d, t \in FolderIds :
       ( /\ HasFolder(d) /\ HasFolder(t)
         /\ (d = t \/ d \in Ancestors(t))
         /\ handleDropOnFolder(DraggedItem(d, "folder"), t) )
       => (notes' = notes /\ folders' = folders /\ activeNoteId' = activeNoteId)]_vars

\* a folder with a descendant two levels below it: the drop that would close
\* the cycle can be tried
C2_Witness ==
  \E a, b, c \in Range(folders) : a.parentId = b.id /\ b.parentId = c.id

\* C3: deleteNote on a note in folder F (or root) that is not in Trash
\* puts it in Trash with previousFolderId = F and nothing else changed; and
\* restoreNote on a trashed note whose recorded folder F still exists (or is
\* root) puts it back in F with previousFolderId cleared and its id, content
\* and order as they were.
C3_SoftDeleteRoundTrip ==
  [][\A id \in NoteIds : HasNote(id) =>
       LET n == NoteById(id)
       IN  /\ (n.folderId # TRASH_FOLDER_ID /\ deleteNote(id))
                => [n EXCEPT !.folderId = TRASH_FOLDER_ID,
                             !.previousFolderId = n.folderId] \in Range(notes')
           /\ (n.folderId = TRASH_FOLDER_ID /\ n.previousFolderId \in Places /\ restoreNote(id))
                => [n EXCEPT !.folderId = n.previousFolderId,
                             !.previousFolderId = UNDEFINED] \in Range(notes')]_vars

\* no folder was deleted, and two notes of one folder carry the same order:
\* one of them was trashed, the other created in its place, the first restored
C3_Witness ==
  /\ Len(folders) = nextFolderUuid - 1
  /\ \E a, b \in Range(notes) :
       /\ a.id # b.id /\ a.folderId = b.folderId /\ a.order = b.order
       /\ HasFolder(a.folderId)
       /\ a.previousFolderId = UNDEFINED /\ b.previousFolderId = UNDEFINED

\* C4: restoreNote on a trashed note puts it in its recorded folder if that
\* folder is still in the folders collection and in root (null) if it is
\* not, and clears previousFolderId either way.
C4_RestoreTarget ==
  [][\A id \in NoteIds :
       (HasNote(id) /\ NoteById(id).folderId = TRASH_FOLDER_ID /\ restoreNote(id))
       => LET n == NoteById(id)
          IN  [n EXCEPT !.folderId = IF HasFolder(n.previousFolderId)
                                     THEN n.previousFolderId ELSE NULL,
                        !.previousFolderId = UNDEFINED] \in Range(notes')]_vars

\* a trashed note whose recorded folder has been deleted in the interim
C4_Witness ==
  \E n \in Range(notes) :
    /\ n.folderId = TRASH_FOLDER_ID
    /\ n.previousFolderId \in FolderIds
    /\ ~HasFolder(n.previousFolderId)

\* C5: deleteFolder(id) removes exactly that folder, gives its direct child
\* folders and direct child notes the deleted folder's parent, and leaves
\* every other folder and note (deeper descendants, trashed notes) as it was.
C5_DeleteFolderReparents ==
  [][\A id \in FolderIds :
       (HasFolder(id) /\ deleteFolder(id))
       => LET p == FolderById(id).parentId
          IN  /\ Len(folders') = Len(folders) - 1
              /\ ~\E f \in Range(folders') : f.id = id
              /\ \A f \in Range(folders) :
                   f.id # id =>
                     [f EXCEPT !.parentId = IF f.parentId = id THEN p ELSE f.parentId]
                       \in Range(folders')
              /\ Len(notes') = Len(notes)
              /\ \A i \in 1..Len(notes) :
                   notes'[i] = [notes[i] EXCEPT
                                  !.folderId = IF notes[i].folderId = id
                                               THEN p ELSE notes[i].folderId]]_vars

\* a folder was deleted and two sibling folders carry the same order: one of
\* them was a child of the deleted folder and kept its order when promoted
C5_Witness ==
  /\ Len(folders) < nextFolderUuid
  /\ \E a, b \in Range(folders) :
       a.id # b.id /\ a.parentId = b.parentId /\ a.order = b.order

\* C6: a note leaves the notes collection only in a step before which it was
\* in Trash; deleteNote on a note that is not in Trash keeps it in the
\* collection, in Trash.
C6_RemovalOnlyFromTrash ==
  [][/\ \A n \in Range(notes) :
          (~\E m \in Range(notes') : m.id = n.id) => n.folderId = TRASH_FOLDER_ID
     /\ \A id \in NoteIds :
          (HasNote(id) /\ NoteById(id).folderId # TRASH_FOLDER_ID /\ deleteNote(id))
          => \E m \in Range(notes') : m.id = id /\ m.folderId = TRASH_FOLDER_ID]_vars

\* a note has been removed for good while another one sits in Trash
C6_Witness ==
  /\ Len(notes) < nextNoteUuid
  /\ \E n \in Range(notes) : n.folderId = TRASH_FOLDER_ID

\* C7: a note that carries a recorded previousFolderId is in Trash.
C7_PreviousOnlyInTrash ==
  \A n \in Range(notes) : n.previousFolderId # UNDEFINED => n.folderId = TRASH_FOLDER_ID

\* one note in Trash with its folder recorded, next to a note that was
\* created after it into the same place and is not in Trash
C7_Witness ==
  \E n, m \in Range(notes) :
    /\ n.folderId = TRASH_FOLDER_ID /\ n.previousFolderId \in FolderIds
    /\ m.folderId = n.previousFolderId /\ m.previousFolderId = UNDEFINED

\* the session is over: at the end of the text, stopped, nothing scheduled
Finished ==
  /\ currentIdx = Len(words) /\ ~isPlaying /\ timeouts = <<>>
  /\ advances = Len(words) /\ finishes = 1

\* C8: from a freshly opened reader with n >= 1 tokens, after togglePlay and
\* with no further input, position advances one by one from 0 to n, each
\* step a fired advance (n in all); playback stops at n exactly once and
\* nothing is scheduled after that.
C8_PlaybackTerminates ==
  /\ [](/\ advances = currentIdx
        /\ currentIdx <= Len(words)
        /\ finishes = (IF currentIdx = Len(words) THEN 1 ELSE 0)
        /\ (finishes = 1 => ~isPlaying /\ timeouts = <<>>))
  /\ [][currentIdx' = currentIdx + 1]_currentIdx
  /\ [][Finished => Finished']_vars
  /\ (isPlaying ~> Finished)

\* a session of the five-token text that has run to its end
C8_Witness == Finished /\ Len(words) = 5

\* C9: at most one scheduled advance is pending in every reachable state.
C9_OnePendingAdvance == Len(timeouts) <= 1

\* playing somewhere after the first token at a speed, and with settings,
\* other than those of the first render: the advance has been re-armed
C9_Witness ==
  /\ Len(timeouts) = 1 /\ isPlaying /\ currentIdx > 0
  /\ wpm # 300 /\ adaptComplexity /\ ~adaptWordLength

\* C10: whenever a scheduled advance is pending the reader is open and
\* playing at a position before the end, and the advance was armed with the
\* delay of the current position, speed, training setting and toggles; so
\* no advance is pending while the reader is paused or closed.
C10_PendingAdvanceIsCurrent ==
  \A i \in 1..Len(timeouts) :
    /\ readerOpen /\ isPlaying /\ currentIdx < Len(words)
    /\ timeouts[i].delay = WordDelay(ReaderState)

\* an advance pending in training mode after the slider was moved away from
\* the speed recorded at open
C10_Witness ==
  /\ Len(timeouts) = 1 /\ trainingMode /\ wpm # startWpmRef /\ currentIdx > 0

\* the states of the playback state machine
Ready == readerOpen /\ ~isPlaying /\ currentIdx < Len(words)
Playing == readerOpen /\ isPlaying
AtEnd == readerOpen /\ ~isPlaying /\ currentIdx >= Len(words)

\* C11: togglePlay makes a Ready session Playing at the same position, a
\* Playing session Ready (paused) at the same position, and a Finished one
\* Playing from position 0.
C11_TogglePlay ==
  /\ Ready => ENABLED (SessionToggle /\ Playing' /\ currentIdx' = currentIdx)
  /\ Playing => ENABLED (SessionToggle /\ Ready' /\ currentIdx' = currentIdx)
  /\ AtEnd => ENABLED (SessionToggle /\ Playing' /\ currentIdx' = 0)

\* a session that ran to the end of its text and plays again from the start
C11_Witness ==
  /\ Playing /\ currentIdx = 0
  /\ finishes = 1 /\ advances = Len(words) /\ Len(words) = 5

\* the note the Reader button opens has text to read
Readable ==
  /\ HasNote(activeNoteId)
  /\ trim(stripHtml(NoteById(activeNoteId).content)) # <<>>

\* C12: every successful open leaves the reader open at position 0, not
\* playing, with the tokens of the note being opened, nothing scheduled and
\* the current speed recorded as the training start speed, whatever the
\* previous session left behind.
C12_OpenResets ==
  [][(OpenReader /\ Readable) =>
       /\ readerOpen' /\ ~isPlaying' /\ currentIdx' = 0
       /\ words' = split(trim(stripHtml(NoteById(activeNoteId).content)))
       /\ startWpmRef' = wpm
       /\ timeouts' = <<>>]_vars

\* a second session, opened on the five-token text after the speed was
\* changed in the first one
C12_Witness ==
  /\ Ready /\ currentIdx = 0 /\ timeouts = <<>>
  /\ startWpmRef # 300 /\ startWpmRef = wpm
  /\ Len(words) = 5

\* C13: openReader with no active note, or with content that is empty or
\* whitespace-only once the markup is stripped, changes nothing: the reader
\* stays as it was (closed), and so do the tokens, the position, the play
\* state and the recorded start speed.
C13_OpenDeclined ==
  [][(OpenReader /\ ~Readable) =>
       UNCHANGED <<readerOpen, words, currentIdx, isPlaying, startWpmRef, timeouts>>]_vars

\* the reader is closed, no note is selected, and the last session left a
\* position, tokens and a start speed behind
C13_Witness ==
  /\ ~readerOpen /\ ~HasNote(activeNoteId)
  /\ currentIdx > 0 /\ Len(words) = 5 /\ startWpmRef # 300

\* C14: close from any open state leaves the reader closed and not playing
\* with no advance pending, at the position it had; while the reader is
\* closed nothing is scheduled and the position changes only by an open.
C14_CloseCancels ==
  /\ [](readerOpen =>
          ENABLED (/\ SessionClose
                   /\ ~readerOpen' /\ ~isPlaying' /\ timeouts' = <<>>
                   /\ currentIdx' = currentIdx))
  /\ [](~readerOpen => ~isPlaying /\ timeouts = <<>>)
  /\ [][~readerOpen => (currentIdx' = currentIdx \/ readerOpen')]_vars

\* the reader was closed in the middle of the text after three advances
C14_Witness ==
  /\ ~readerOpen /\ ~isPlaying /\ timeouts = <<>>
  /\ currentIdx = 3 /\ advances = 3 /\ finishes = 0 /\ Len(words) = 5

\* C15: from any open state the seek bar sets the position to the chosen
\* index of 0..tokenCount-1 and leaves the play state as it was: a playing
\* session keeps playing, with an advance scheduled, and a paused one stays
\* paused.
C15_SeekKeepsPlayState ==
  /\ [](readerOpen =>
          \A v \in 0..(Len(words) - 1) :
            ENABLED (/\ readerOpen /\ seek(v) /\ TreeIdle /\ UNCHANGED historyVars
                     /\ currentIdx' = v
                     /\ isPlaying' = isPlaying
                     /\ Len(timeouts') = (IF isPlaying THEN 1 ELSE 0)))
  /\ [][SessionSeek =>
          /\ currentIdx' \in 0..(Len(words) - 1)
          /\ isPlaying' = isPlaying]_vars

\* a playing session at the last token of the five after one fired advance
C15_Witness ==
  /\ Playing /\ Len(timeouts) = 1
  /\ currentIdx = 4 /\ advances = 1 /\ finishes = 0 /\ Len(words) = 5

PacedToken == words[currentIdx + 1]
CleanLength(token) == Cardinality({i \in 1..Len(token) : token[i] \in WordChars})
LengthTerm(token) ==
  IF adaptWordLength
  THEN (IF CleanLength(token) > 5 THEN CleanLength(token) - 5 ELSE 0) * 12
  ELSE 0
PunctuationTerm(token) ==
  IF ~adaptPunctuation \/ token = <<>> THEN 0
  ELSE CASE token[Len(token)] \in {".", "!", "?"} -> 150
         [] token[Len(token)] \in {",", ";", ":"} -> 80
         [] token[Len(token)] \in {"-", EmDash} -> 50
         [] OTHER -> 0
IsCommon(token) ==
  LET clean == SelectSeq(token, LAMBDA c : c \in WordChars)
  IN  Join([i \in 1..Len(clean) |-> toLowerCase(clean[i])]) \in commonWords
\* the multiplier in fifths: 6/5 = 1.2, 5/5 = 1
MultiplierFifths(token) == IF adaptComplexity /\ ~IsCommon(token) THEN 6 ELSE 5
The == <<"t", "h", "e">>
ExtraordinaryDot ==
  <<"e", "x", "t", "r", "a", "o", "r", "d", "i", "n", "a", "r", "y", ".">>

\* C17: the delay of a token is (60000/baseWpm + L + P) * M with L the
\* length term, P the punctuation term and M = 1.2 for an uncommon word
\* under adaptComplexity, the multiplier applied to the whole sum; "the" at
\* 300 with no toggle is 200 ms, "extraordinary." at 300 with length and
\* punctuation is 446 ms.
C17_DelayFormula ==
  \A i \in 1..Len(timeouts) :
    LET d == timeouts[i].delay
    IN  /\ d.den = 5 * wpm
        /\ d.num = (60000 + wpm * (LengthTerm(PacedToken) + PunctuationTerm(PacedToken)))
                     * MultiplierFifths(PacedToken)
        /\ ( /\ PacedToken = The /\ wpm = 300
             /\ ~adaptWordLength /\ ~adaptPunctuation /\ ~adaptComplexity )
           => d.num = 200 * d.den
        /\ ( /\ PacedToken = ExtraordinaryDot /\ wpm = 300
             /\ adaptWordLength /\ adaptPunctuation /\ ~adaptComplexity )
           => d.num = 446 * d.den

\* "extraordinary." at 300 with the three toggles on waits 446 * 1.2 = 535.2 ms
C17_Witness ==
  /\ Len(timeouts) = 1 /\ PacedToken = ExtraordinaryDot /\ wpm = 300
  /\ adaptWordLength /\ adaptPunctuation /\ adaptComplexity
  /\ 10 * timeouts[1].delay.num = 5352 * timeouts[1].delay.den

\* C18: with adaptWordLength on and the speed, the other toggles, the
\* punctuation pause and the common-word status the same, a token that is
\* not shorter (cleaned) than another waits at least as long, and tokens of
\* cleaned length 0..5 wait the same.
C18_LengthMonotone ==
  [][( /\ Len(timeouts) = 1 /\ Len(timeouts') = 1 /\ currentIdx' = currentIdx + 1
       /\ adaptWordLength
       /\ PunctuationTerm(words[currentIdx + 1]) = PunctuationTerm(words[currentIdx + 2])
       /\ IsCommon(words[currentIdx + 1]) = IsCommon(words[currentIdx + 2]) )
     => LET a == CleanLength(words[currentIdx + 1])
            b == CleanLength(words[currentIdx + 2])
            da == timeouts[1].delay
            db == timeouts'[1].delay
        IN  /\ da.den = db.den
            /\ a <= b => da.num <= db.num
            /\ b <= a => db.num <= da.num
            /\ (a <= 5 /\ b <= 5) => da.num = db.num]_vars

\* the second token of "' paces" is being paced: cleaned lengths 0 and 5
C18_Witness ==
  /\ Len(timeouts) = 1 /\ currentIdx = 1 /\ adaptWordLength /\ adaptComplexity
  /\ words = << <<"'">>, <<"p", "a", "c", "e", "s">> >>

\* the base speed the pending advance was paced with: its delay is a
\* fraction over 5 * baseWpm
ArmedBase(t) == t.delay.den \div 5
RampedWpm ==
  LET ramped == startWpmRef + (currentIdx \div 50) * 10
  IN  IF ramped < 800 THEN ramped ELSE 800

\* C19: every advance is paced with min(startWpm + floor(position/50)*10,
\* 800) in training mode, startWpm being the speed recorded at the open and
\* not the slider's, and with the configured speed, uncapped, when training
\* mode is off; from 300, position 149 is paced at 320 and position 150 at
\* 330.
C19_TrainingRamp ==
  \A i \in 1..Len(timeouts) :
    /\ timeouts[i].delay.den = 5 * ArmedBase(timeouts[i])
    /\ trainingMode => ArmedBase(timeouts[i]) = RampedWpm
    /\ ~trainingMode => ArmedBase(timeouts[i]) = wpm
    /\ (trainingMode /\ startWpmRef = 300 /\ currentIdx = 149)
         => ArmedBase(timeouts[i]) = 320
    /\ (trainingMode /\ startWpmRef = 300 /\ currentIdx = 150)
         => ArmedBase(timeouts[i]) = 330

\* position 150 of a training session opened at 300, the slider moved since
C19_Witness ==
  /\ Len(timeouts) = 1 /\ trainingMode /\ currentIdx = 150
  /\ startWpmRef = 300 /\ wpm = 100 /\ ArmedBase(timeouts[1]) = 330

\* C20: in training mode, if the speed recorded at the open is at most 800,
\* every advance of the session is paced with a speed of at most 800.
C20_TrainingCap ==
  (trainingMode /\ startWpmRef <= 800) =>
    \A i \in 1..Len(timeouts) : ArmedBase(timeouts[i]) <= 800

\* position 100 of a training session opened at 790: 810 without the cap
C20_Witness ==
  /\ Len(timeouts) = 1 /\ trainingMode /\ startWpmRef = 790 /\ currentIdx = 100
  /\ ArmedBase(timeouts[1]) = 800

\* the id of the first note of the collection that Keep accepts, or none
FirstNoteId(Keep(_)) ==
  IF \E i \in 1..Len(notes) : Keep(notes[i])
  THEN notes[CHOOSE i \in 1..Len(notes) :
               Keep(notes[i]) /\ \A j \in 1..(i - 1) : ~Keep(notes[j])].id
  ELSE NULL

\* C21: deleteNote on the active note, not in Trash, selects the first note
\* of the collection that is neither that note nor in Trash, or none;
\* deleteNote on another note, not in Trash, leaves the selection.
C21_SoftDeleteSelection ==
  [][\A n \in Range(notes) :
       (n.folderId # TRASH_FOLDER_ID /\ deleteNote(n.id))
       => activeNoteId' =
            IF activeNoteId = n.id
            THEN FirstNoteId(LAMBDA m : m.id # n.id /\ m.folderId # TRASH_FOLDER_ID)
            ELSE activeNoteId]_vars

\* three notes, the first and the last in Trash, the one between selected
C21_Witness ==
  /\ Len(notes) = 3
  /\ notes[1].folderId = TRASH_FOLDER_ID /\ notes[3].folderId = TRASH_FOLDER_ID
  /\ notes[2].folderId = NULL /\ activeNoteId = notes[2].id

\* C22: deleteNote on the active note, in Trash, removes it and selects
\* another note of Trash if one remains, else the first remaining note of
\* the collection, else none.
C22_PermanentDeleteSelection ==
  [][\A n \in Range(notes) :
       (n.folderId = TRASH_FOLDER_ID /\ activeNoteId = n.id /\ deleteNote(n.id))
       => LET others == {m \in Range(notes) : m.id # n.id}
              trashed == {m \in others : m.folderId = TRASH_FOLDER_ID}
          IN  /\ Range(notes') = others
              /\ Len(notes') = Len(notes) - 1
              /\ trashed # {} => activeNoteId' \in {m.id : m \in trashed}
              /\ (trashed = {} /\ others # {})
                   => activeNoteId' = FirstNoteId(LAMBDA m : m.id # n.id)
              /\ others = {} => activeNoteId' = NULL]_vars

\* one of three notes is gone for good; of the two left the second is in
\* Trash and selected, the first is not in Trash
C22_Witness ==
  /\ Len(notes) = 2 /\ nextNoteUuid = 2
  /\ notes[1].folderId = NULL /\ notes[2].folderId = TRASH_FOLDER_ID
  /\ activeNoteId = notes[2].id

\* C23: emptyTrash removes exactly the notes in Trash and leaves every other
\* note and every folder as it was; the selection changes only if the
\* selected note was removed, and then to the first remaining note or none.
C23_EmptyTrashFrame ==
  [][(EmptyTrash) =>
       /\ notes' = SelectSeq(notes, LAMBDA n : n.folderId # TRASH_FOLDER_ID)
       /\ folders' = folders
       /\ activeNoteId' =
            IF \E n \in Range(notes) : n.id = activeNoteId /\ n.folderId = TRASH_FOLDER_ID
            THEN FirstNoteId(LAMBDA m : m.folderId # TRASH_FOLDER_ID)
            ELSE activeNoteId]_vars

\* two of three notes are gone for good at once; the one left is selected
C23_Witness ==
  /\ Len(notes) = 1 /\ nextNoteUuid = 2
  /\ notes[1].id = NoteUuids[1] /\ notes[1].folderId = SavedFolderId
  /\ activeNoteId = notes[1].id

\* one past the largest order of a set of siblings, 0 for none
NextOrder(siblings) ==
  IF siblings = {} THEN 0
  ELSE 1 + CHOOSE k \in {s.order : s \in siblings} : \A s \in siblings : s.order <= k

\* C24: createNote and createFolder give the new item the order one past
\* the largest order of the items of its kind under the same parent, 0 when
\* there is none, so that it is strictly last among them; the existing
\* items are unchanged.
C24_CreatedLast ==
  [][\A p \in Places :
       /\ createNote(p) =>
            LET siblings == {n \in Range(notes) : n.folderId = p}
            IN  /\ notes' = <<notes'[1]>> \o notes
                /\ folders' = folders
                /\ notes'[1].folderId = p
                /\ notes'[1].order = NextOrder(siblings)
                /\ \A n \in siblings : n.order < notes'[1].order
       /\ createFolder(p) =>
            LET siblings == {f \in Range(folders) : f.parentId = p}
                new == folders'[Len(folders')]
            IN  /\ folders' = Append(folders, new)
                /\ notes' = notes
                /\ new.parentId = p
                /\ new.order = NextOrder(siblings)
                /\ \A f \in siblings : f.order < new.order]_vars

\* the newest note follows a sibling whose order a move had raised to 1
C24_Witness ==
  /\ Len(notes) = 2
  /\ notes[1].folderId = notes[2].folderId
  /\ notes[2].order = 1 /\ notes[1].order = 2
  /\ notes[1].id = NoteUuids[2]

\* C25: a note dropped on a folder or on the root area gets the target as
\* its folderId and the next order of the notes of the target as its order,
\* which puts it strictly after every other note of the target; no other
\* note and no folder changes.
C25_MoveNote ==
  [][\A i \in 1..Len(notes), t \in Places :
       LET n == notes[i]
           d == DraggedItem(n.id, "note")
           target == {m \in Range(notes) : m.folderId = t}
       IN  (/\ n.folderId # TRASH_FOLDER_ID
            /\ IF t = NULL THEN handleDropOnRoot(d) ELSE handleDropOnFolder(d, t))
           => /\ folders' = folders
              /\ notes' = [notes EXCEPT ![i] = [n EXCEPT !.folderId = t,
                                                         !.order = NextOrder(target)]]
              /\ \A m \in target : m.id # n.id => m.order < notes'[i].order]_vars

\* a note that was dropped on a folder after the other note of that folder:
\* of the only two notes ever created, the second follows the first at a
\* distance that only a move leaves
C25_Witness ==
  /\ Len(notes) = 2 /\ nextNoteUuid = 2
  /\ notes[1].folderId = notes[2].folderId
  /\ notes[1].folderId \in {f.id : f \in Range(folders)}
  /\ notes[2].order = 0 /\ notes[1].order = 2

\* the identities that no note and no folder of the store has
UnknownIds ==
  (NoteIds \cup FolderIds)
    \ ({n.id : n \in Range(notes)} \cup {f.id : f \in Range(folders)})
\* the store and the selection are what they were
StoreUnchanged == UNCHANGED <<notes, folders, activeNoteId>>
\* the places the order bound of the model lets an item of the type be dropped on
DropPlaces(type) == {p \in Places : getNextOrder(p, type) <= MaxOrder}

\* C26: updateNote, deleteNote, restoreNote, a note move, updateFolder,
\* deleteFolder, toggleFolderCollapse and a folder move, called with an
\* identity that no note and no folder has, run to their end and leave the
\* notes, the folders and the active selection as they were.
C26_UnknownIdNoOp ==
  \A id \in UnknownIds :
    /\ \A c \in Contents : ENABLED (updateNote(id, [content |-> c]) /\ StoreUnchanged)
    /\ ENABLED (deleteNote(id) /\ StoreUnchanged)
    /\ ENABLED (restoreNote(id) /\ StoreUnchanged)
    /\ \A nm \in FolderNames : ENABLED (updateFolder(id, [name |-> nm]) /\ StoreUnchanged)
    /\ ENABLED (deleteFolder(id) /\ StoreUnchanged)
    /\ ENABLED (toggleFolderCollapse(id) /\ StoreUnchanged)
    /\ \A type \in {"note", "folder"} :
         \A p \in DropPlaces(type) :
           IF p = NULL
           THEN ENABLED (handleDropOnRoot(DraggedItem(id, type)) /\ StoreUnchanged)
           ELSE ENABLED (handleDropOnFolder(DraggedItem(id, type), p) /\ StoreUnchanged)

\* a store that holds a note and a folder and has lost a note and a folder,
\* whose identities are now unknown
C26_Witness ==
  /\ Len(notes) = 1 /\ nextNoteUuid = 2
  /\ Len(folders) = 1 /\ nextFolderUuid = 2
  /\ notes[1].folderId = folders[1].id
  /\ activeNoteId = notes[1].id
  /\ UnknownIds \cap NoteIds # {} /\ UnknownIds \cap FolderIds # {}
  /\ DropPlaces("note") = Places /\ DropPlaces("folder") = Places

\* C27: toggleFolderCollapse flips the collapsed flag of the folder with the
\* id and nothing else: the folder's parentId, order and name, every other
\* folder, every note and the active selection are unchanged, and a second
\* toggle of the same folder gives back the state before the first.
C27_ToggleCollapse ==
  [][\A i \in 1..Len(folders) :
       toggleFolderCollapse(folders[i].id) =>
         /\ folders' = [folders EXCEPT ![i].collapsed = ~folders[i].collapsed]
         /\ notes' = notes
         /\ activeNoteId' = activeNoteId
         /\ \E before \in {folders} :
              (ENABLED (/\ toggleFolderCollapse(folders[i].id)
                        /\ folders' = before
                        /\ UNCHANGED <<notes, activeNoteId>>))']_vars

\* a renamed folder inside another folder is collapsed, next to notes
C27_Witness ==
  /\ Len(folders) = 2 /\ Len(notes) = 2
  /\ folders[2].parentId = folders[1].id
  /\ folders[2].name = "Untitled"
  /\ folders[2].collapsed /\ ~folders[1].collapsed
  /\ notes[1].folderId = folders[2].id

\* the index the length of a token gives its focus character
FocusIndex(len) ==
  CASE len <= 1 -> 0
    [] len \in 2..5 -> 1
    [] len \in 6..9 -> 2
    [] len \in 10..13 -> 3
    [] len >= 14 -> 4

\* C28: the focus character of a token is at index 0 for a length of at most
\* 1, 1 for 2..5, 2 for 6..9, 3 for 10..13 and 4 from 14 on; the index is
\* inside every token that is not empty, and prefix, focus character and
\* suffix put together are the token.
C28_FocusCharacter ==
  LET index == Len(orp.prefix)
  IN  /\ index = FocusIndex(Len(currentWord))
      /\ currentWord # <<>> =>
           /\ index < Len(currentWord)
           /\ orp.char = <<currentWord[index + 1]>>
      /\ orp.prefix \o orp.char \o orp.suffix = currentWord

\* the reader has advanced to a token of at least 14 characters
C28_Witness ==
  /\ readerOpen /\ currentIdx = 1
  /\ Len(words) = 2 /\ Len(words[1]) = 6
  /\ Len(currentWord) >= 14

\* the maximal runs of characters that are not whitespace, in text order
Runs(text) ==
  LET starts == {i \in 1..Len(text) :
                   /\ text[i] \notin Whitespace
                   /\ i = 1 \/ text[i - 1] \in Whitespace}
      StartOf(k) == CHOOSE i \in starts : Cardinality({j \in starts : j < i}) = k - 1
      EndOf(i) == CHOOSE j \in i..Len(text) :
                    /\ \A m \in i..j : text[m] \notin Whitespace
                    /\ j = Len(text) \/ text[j + 1] \in Whitespace
  IN  [k \in 1..Cardinality(starts) |-> SubSeq(text, StartOf(k), EndOf(StartOf(k)))]

\* the plain text of the note the reader was opened on
OpenedText == stripHtml(NoteById(activeNoteId).content)

\* C29: for every text that is not only whitespace, the tokens produced at
\* open have no empty token and no token with whitespace in it, and are the
\* maximal runs of non-whitespace characters of the text in their order,
\* punctuation included; the tokens are a function of the text.
C29_Tokens ==
  [][(OpenReader /\ \E i \in 1..Len(OpenedText) : OpenedText[i] \notin Whitespace) =>
       /\ readerOpen'
       /\ \A i \in 1..Len(words') :
            /\ words'[i] # <<>>
            /\ \A j \in 1..Len(words'[i]) : words'[i][j] \notin Whitespace
       /\ words' = Runs(OpenedText)]_vars

\* the reader is open on two paragraphs of one token each, the first with
\* its punctuation, the end of the paragraph being the whitespace between
C29_Witness ==
  /\ readerOpen
  /\ NoteById(activeNoteId).content = <<"a", ".", "</p>", "b">>
  /\ words = << <<"a", ".">>, <<"b">> >>

\* C30: when the initial load fails, because window.api.loadData is missing
\* or because a load promise rejects, the app is in the loaded state, the
\* notes and the folders are empty until the user creates some, the sidebar
\* goes on working on them, and loadAppData is not run again.
C30_LoadFailure ==
  consoleErrors # <<>> =>
    /\ isLoaded
    /\ loadAppData = "returned"
    /\ Len(consoleErrors) = 1
    /\ ~ENABLED (LoadCalled \/ LoadResolved \/ LoadRejected)
    /\ {n.id : n \in Range(notes)} \subseteq {NoteUuids[k] : k \in 1..nextNoteUuid}
    /\ {f.id : f \in Range(folders)} \subseteq {FolderUuids[k] : k \in 1..nextFolderUuid}
    /\ nextNoteUuid = 0 => notes = <<>>
    /\ nextFolderUuid = 0 => folders = <<>>
    /\ nextNoteUuid < MaxNotes =>
         ENABLED (CreateNote /\ Len(notes') = Len(notes) + 1 /\ folders' = folders)

\* a load promise rejected, and the user has created a folder and a note in it
C30_Witness ==
  /\ consoleErrors = <<"Failed to load data:">>
  /\ Len(folders) = 1 /\ Len(notes) = 1
  /\ notes[1].folderId = folders[1].id

\* C31: a folder dropped on an existing folder is declined only when the
\* target is the folder itself or one of its descendants; dropped anywhere
\* else, on a sibling, on its current parent or on the root area, it gets the
\* target as parentId and the next order of the folders of the target as
\* order, and no other folder and no note changes.
C31_MoveFolder ==
  \A i \in 1..Len(folders) :
    \A t \in DropPlaces("folder") :
      LET f == folders[i]
          d == DraggedItem(f.id, "folder")
          moved == [folders EXCEPT ![i] =
                      [f EXCEPT !.parentId = t,
                                !.order = NextOrder({g \in Range(folders) : g.parentId = t})]]
      IN  (t # f.id /\ f.id \notin Ancestors(t)) =>
            IF t = NULL
            THEN ENABLED (handleDropOnRoot(d) /\ folders' = moved /\ notes' = notes)
            ELSE ENABLED (handleDropOnFolder(d, t) /\ folders' = moved /\ notes' = notes)

\* a folder that was dropped on the parent it already had, after its
\* sibling: three folders, one the parent of the two others, the first
\* created of the two now behind the second
C31_Witness ==
  \E a, b, c \in Range(folders) :
    /\ a.parentId = NULL /\ b.parentId = a.id /\ c.parentId = a.id
    /\ Created(b.id) < Created(c.id)
    /\ b.order > c.order

\* the note with the id is in Trash, the folder before recorded, and a
\* restore would put it back in that folder
TrashedFrom(id, before) ==
  /\ \E m \in Range(notes) :
       m.id = id /\ m.folderId = TRASH_FOLDER_ID /\ m.previousFolderId = before
  /\ ENABLED (/\ restoreNote(id)
              /\ \E m \in Range(notes') : m.id = id /\ m.folderId = before)

\* C32: a note sent to Trash, by deleteNote or by a drop on the Trash
\* header, is in Trash with the folder it was in recorded, so that a restore
\* while that folder exists puts it back there.
C32_TrashRecordsFolder ==
  [][\A n \in Range(notes) :
       \E id \in {n.id}, before \in {n.folderId} :
         ( /\ n.folderId # TRASH_FOLDER_ID
           /\ \/ deleteNote(id)
              \/ TrashShown /\ handleDropOnTrash(DraggedItem(id, "note")) )
         => TrashedFrom(id, before)']_vars

\* C33: a drop on a target inside the root drop area, a folder row or the
\* Trash header, leaves the state that the handler of that target alone
\* produces from the state at the drop: no second handler, computed from the
\* same state, overwrites it.
C33_OneHandlerPerDrop ==
  [][\A d \in Draggable :
       /\ \A t \in {f.id : f \in Range(folders)} :
            handleDropOnFolder(d, t) => Commit(<<DropOnFolderQueue(d, t)>>)
       /\ (TrashShown /\ handleDropOnTrash(d)) => Commit(<<DropOnTrashQueue(d)>>)]_vars

\* C34: in every reachable state the parentId of every folder is null or
\* the id of a folder of the store, and the folderId of every note is null,
\* Trash or the id of a folder of the store; after deleteFolder nothing
\* outside Trash refers to the deleted folder.
C34_ReferencesExist ==
  /\ \A f \in Range(folders) : f.parentId = NULL \/ HasFolder(f.parentId)
  /\ \A n \in Range(notes) :
       n.folderId \in {NULL, TRASH_FOLDER_ID} \/ HasFolder(n.folderId)

\* the second folder created is gone; the third is at root and holds a
\* note, and another note is at root
C34_Witness ==
  /\ nextFolderUuid = 3 /\ Len(folders) = 1
  /\ folders[1].id = FolderUuids[3] /\ folders[1].parentId = NULL /\ folders[1].order = 0
  /\ Len(notes) = 2
  /\ notes[1].folderId = FolderUuids[3] /\ notes[2].folderId = NULL

\* C35: in every reachable state no two notes outside Trash under the same
\* parent have the same order, and no two folders under the same parent
\* have the same order.
C35_SiblingOrdersDistinct ==
  /\ \A i, j \in 1..Len(notes) :
       ( /\ i # j
         /\ notes[i].folderId # TRASH_FOLDER_ID
         /\ notes[i].folderId = notes[j].folderId )
       => notes[i].order # notes[j].order
  /\ \A i, j \in 1..Len(folders) :
       (i # j /\ folders[i].parentId = folders[j].parentId)
       => folders[i].order # folders[j].order

\* C36: within one training session the speed an advance is scheduled with
\* is never below the speed of the advance that was pending before it,
\* whatever play, pause, seek, arrow keys and restart come in between.
C36_RampNeverDecreases ==
  [][trainingMode =>
       \A i \in 1..Len(timeouts), j \in 1..Len(timeouts') :
         ArmedBase(timeouts'[j]) >= ArmedBase(timeouts[i])]_vars

\* C37: for every token and speed, under every combination of the three
\* toggles the delay is positive and at least 60000 / baseWpm, and the delay
\* with one toggle on is never below the delay with that toggle off and the
\* other two unchanged; the delay the effect armed is one of these.
C37_NoAdaptationShortens ==
  \A i \in 1..Len(timeouts) :
    LET delay(l, p, c) == calculateWordDelay(PacedToken, AdaptiveOptions(wpm, l, p, c))
    IN  /\ timeouts[i].delay = delay(adaptWordLength, adaptPunctuation, adaptComplexity)
        /\ \A l, p, c \in BOOLEAN :
             /\ delay(l, p, c).den > 0
             /\ delay(l, p, c).num > 0
             /\ delay(l, p, c).num * wpm >= 60000 * delay(l, p, c).den
             /\ delay(l, p, c).den = delay(FALSE, FALSE, FALSE).den
             /\ delay(TRUE, p, c).num >= delay(FALSE, p, c).num
             /\ delay(l, TRUE, c).num >= delay(l, FALSE, c).num
             /\ delay(l, p, TRUE).num >= delay(l, p, FALSE).num

\* "Why?" at 100 with the punctuation toggle alone waits 750 ms, 150 ms more
\* than with the toggle off
C37_Witness ==
  /\ Len(timeouts) = 1 /\ PacedToken = <<"W", "h", "y", "?">> /\ wpm = 100
  /\ ~adaptWordLength /\ adaptPunctuation /\ ~adaptComplexity
  /\ timeouts[1].delay.num = 750 * timeouts[1].delay.den
  /\ calculateWordDelay(PacedToken, AdaptiveOptions(wpm, FALSE, FALSE, FALSE)).num
       = 600 * timeouts[1].delay.den

\* C38: once loaded, in every reachable state the selection is none (the
\* initial empty id or null) or the id of a note of the notes collection,
\* whatever notes were created, deleted, restored, moved or emptied from
\* Trash and whatever folders were deleted.
C38_SelectionExists ==
  isLoaded =>
    \/ activeNoteId \in {EMPTY, NULL}
    \/ \E n \in Range(notes) : n.id = activeNoteId

\* both notes ever created are gone for good, the selected one last: the
\* selection is null
C38_Witness ==
  /\ isLoaded /\ nextNoteUuid = 2 /\ notes = <<>>
  /\ activeNoteId = NULL

\* C39: while the reader is open the position is within 0..tokenCount before
\* and after every step; a step that brings the position to tokenCount is a
\* fired advance from tokenCount - 1, never a seek or an arrow key; and no
\* step leaves an open session playing, or with an advance scheduled, at a
\* position of tokenCount or more.
C39_PositionInRange ==
  [][/\ readerOpen => (0 <= currentIdx /\ currentIdx <= Len(words))
     /\ readerOpen' => (0 <= currentIdx' /\ currentIdx' <= Len(words'))
     /\ (readerOpen' /\ currentIdx' = Len(words') /\ currentIdx # currentIdx')
          => /\ SessionAdvance
             /\ words' = words
             /\ currentIdx = Len(words) - 1
             /\ advances' = advances + 1
     /\ (readerOpen' /\ currentIdx' >= Len(words'))
          => (~isPlaying' /\ timeouts' = <<>>)]_vars

\* the end of a text of five tokens was reached a second time, after the
\* position had been moved back from the end
C39_Witness ==
  /\ readerOpen /\ Len(words) = 5 /\ currentIdx = Len(words)
  /\ ~isPlaying /\ timeouts = <<>>
  /\ finishes = 2

\* C40: saveData is called only once the load has completed; the steps of
\* the load, whether it succeeds or fails, schedule no save and call none; a
\* save timer is set only by a step that changes notes or folders after the
\* load, with a delay of 500 ms, and every such change replaces the pending
\* timer, so the pending timer always carries the collections as they are;
\* the call made when the timer fires carries them.
C40_SaveAfterChange ==
  [][/\ ~isLoaded' => (saveDataCalls' = <<>> /\ saveTimeouts' = <<>>)
     /\ (isLoaded' # isLoaded \/ loadAppData' # loadAppData)
          => (saveTimeouts' = <<>> /\ saveDataCalls' = saveDataCalls)
     /\ (saveTimeouts' # <<>> /\ saveTimeouts' # saveTimeouts)
          => (isLoaded /\ (notes' # notes \/ folders' # folders))
     /\ Len(saveTimeouts') <= 1
     /\ \A t \in Range(saveTimeouts') :
          t.delay = 500 /\ t.data = [folders |-> folders', notes |-> notes']
     /\ saveDataCalls' # saveDataCalls
          => /\ isLoaded /\ loadAppData = "returned"
             /\ notes' = notes /\ folders' = folders
             /\ saveTimeouts # <<>> /\ saveTimeouts' = <<>>
             /\ saveDataCalls'
                  = Append(saveDataCalls, [folders |-> folders, notes |-> notes])]_vars

\* two saves were made after a load that brought a note and a folder: the
\* first carried the folder collapsed, the second carries the collections as
\* they are now, with a second note
C40_Witness ==
  /\ isLoaded /\ consoleErrors = <<>> /\ Len(saveDataCalls) = 2
  /\ saveDataCalls[1].folders = <<[SavedFolder EXCEPT !.collapsed = TRUE]>>
  /\ Len(saveDataCalls[1].notes) = 1
  /\ saveDataCalls[2] = [folders |-> folders, notes |-> notes]
  /\ Len(notes) = 2
  /\ saveTimeouts = <<>>

====
